---- MODULE Spec2Model ----
(***************************************************************************)
(* A model of the DSP core of northernpaws/rythm (crates/catalina-engine): *)
(* the ADSR envelope (audio/envelope/adsr.rs), the waveform table builder, *)
(* the oscillators and the lookup-table allocator                          *)
(* (audio/oscillator/mod.rs), the variable-shape oscillator                *)
(* (audio/oscillator/variable.rs), the sample conversions                  *)
(* (audio/sample/conv.rs) and the Hertz key type (core/mod.rs); and of     *)
(* Octave (crates/engine, music/octave.rs), Pitch and Note (music/pitch.rs *)
(* and note.rs), the additive synth (crates/catalina-instruments,          *)
(* synths/additive) and Project (crates/engine, sequence/mod.rs).          *)
(*                                                                         *)
(* f32 values are modelled in fixed point: a real v is the integer         *)
(* v * FxOne, and every product or quotient is rounded to the nearest      *)
(* integer, as an f32 operation rounds to the nearest float.               *)
(***************************************************************************)
EXTENDS Integers, Sequences, FiniteSets, TLC

VARIABLES
    adsr,       \* the Envelope object (all fields of the struct)
    env_call,   \* the last call made on the Envelope: operation, argument, result
    lookup,     \* OscillatorAllocator.lookup: the entries, in insertion order
    alloc_call, \* the last lookup_or_allocate call: key, cache before, result
    bt,         \* one build_table call: the buffer and arguments, and its outcome
    rt,         \* a RuntimeOscillator
    lk,         \* a LookupOscillator and the table it reads
    osc_call,   \* the samples the two oscillators returned so far
    cv,         \* a sample value and the conversions made of it
    vso,        \* a VariableShapeOscillator
    vso_call,   \* the last call made on it, and the calls made so far
    octave,     \* an Octave variable of a caller
    oct_call,   \* the last operation on it: operands, outcome, and the build's overflow checks
    synth,      \* an AdditiveSynth
    synth_call, \* the last call made on it: operation, note, result, and the frames produced so far
    project,    \* a Project
    proj_call   \* the last call made on it: operation, index, outcome

env_vars == <<adsr, env_call>>
alloc_vars == <<lookup, alloc_call>>
table_vars == <<bt>>
osc_vars == <<rt, lk, osc_call>>
conv_vars == <<cv>>
vso_vars == <<vso, vso_call>>
oct_vars == <<octave, oct_call>>
synth_vars == <<synth, synth_call>>
proj_vars == <<project, proj_call>>
vars == <<adsr, env_call, lookup, alloc_call, bt, rt, lk, osc_call, cv, vso, vso_call, octave, oct_call, synth, synth_call, project, proj_call>>

\* What the operations of one component leave alone.
not_env == <<alloc_vars, table_vars, osc_vars, conv_vars, vso_vars, oct_vars, synth_vars, proj_vars>>
not_alloc == <<env_vars, table_vars, osc_vars, conv_vars, vso_vars, oct_vars, synth_vars, proj_vars>>
not_table == <<env_vars, alloc_vars, osc_vars, conv_vars, vso_vars, oct_vars, synth_vars, proj_vars>>
not_osc == <<env_vars, alloc_vars, table_vars, conv_vars, vso_vars, oct_vars, synth_vars, proj_vars>>
not_conv == <<env_vars, alloc_vars, table_vars, osc_vars, vso_vars, oct_vars, synth_vars, proj_vars>>
not_vso == <<env_vars, alloc_vars, table_vars, osc_vars, conv_vars, oct_vars, synth_vars, proj_vars>>
not_oct == <<env_vars, alloc_vars, table_vars, osc_vars, conv_vars, vso_vars, synth_vars, proj_vars>>
not_synth == <<env_vars, alloc_vars, table_vars, osc_vars, conv_vars, vso_vars, oct_vars, proj_vars>>
not_proj == <<env_vars, alloc_vars, table_vars, osc_vars, conv_vars, vso_vars, oct_vars, synth_vars>>

(***************************************************************************)
(* Fixed-point arithmetic                                                  *)
(***************************************************************************)

\* The fixed-point unit: the integer that stands for 1.0.
FxOne == 200

\* a / b rounded to the nearest integer (b > 0), ties upwards.
RoundDiv(a, b) == (2 * a + b) \div (2 * b)

\* a * b of two fixed-point numbers.
FxMul(a, b) == RoundDiv(a * b, FxOne)

\* The series 1 + y + y^2/2! + ... for 0 <= y <= 2.0, summed until a term vanishes.
RECURSIVE ExpTerms(_, _, _)
ExpTerms(y, k, term) ==
    IF term = 0 THEN 0
    ELSE term + ExpTerms(y, k + 1, RoundDiv(term * y, k * FxOne))

\* e^a for a <= 0: 1 / e^(-a), halving large arguments.
RECURSIVE ExpNeg(_)
ExpNeg(a) ==
    IF a < -2 * FxOne
    THEN LET h == ExpNeg(a \div 2) IN FxMul(h, IF a % 2 = 0 THEN h ELSE ExpNeg(a - a \div 2))
    ELSE RoundDiv(FxOne * FxOne, ExpTerms(-a, 1, FxOne))

\* The arguments below which e^a is 0 at this resolution.
ExpFloor == -8 * FxOne

\* ExpNeg tabulated once.
ExpTable == [a \in ExpFloor..0 |-> ExpNeg(a)]

\* libm::expf for arguments a <= 0.
expf(a) == IF a < ExpFloor THEN 0 ELSE ExpTable[a]

\* The r in [lo, hi] whose expf is nearest to v.
RECURSIVE LogSearch(_, _, _)
LogSearch(v, lo, hi) ==
    IF hi - lo <= 1
    THEN IF v - expf(lo) <= expf(hi) - v THEN lo ELSE hi
    ELSE LET mid == (lo + hi) \div 2
         IN IF expf(mid) <= v THEN LogSearch(v, mid, hi) ELSE LogSearch(v, lo, mid)

\* LogSearch tabulated once.
LogTable == [v \in 1..FxOne |-> LogSearch(v, ExpFloor, 0)]

\* libm::logf for 0 < v <= 1.0.
logf(v) == LogTable[v]

\* libm::powf(x, n) for a natural exponent n.
RECURSIVE powf(_, _)
powf(x, n) == IF n = 0 THEN FxOne ELSE FxMul(powf(x, n - 1), x)

(***************************************************************************)
(* audio/envelope/adsr.rs                                                  *)
(***************************************************************************)

\* const M_E: f32 = 2.71828182845904523536
M_E == RoundDiv(271828 * FxOne, 100000)

\* The floor the Release stage approaches, and the sustain level a request of
\* zero is mapped to: the literal -0.01.
NegFloor == -(FxOne \div 100)

\* The sample rate the model's envelope is constructed with.
EnvSampleRate == 20

\* seconds * self.sample_rate as f32, in samples (fixed point).
StageSamples(self, seconds) == seconds * self.sample_rate

\* Envelope::set_attack_time (the faulty variant: an instant attack leaves
\* the coefficient as it was).
set_attack_time_keep(self, seconds, shape) ==
    IF (seconds # self.attack_time) \/ (shape # self.attack_shape)
    THEN LET s1 == [self EXCEPT !.attack_time = seconds, !.attack_shape = shape]
         IN IF seconds > 0
            THEN LET target == 9 * powf(shape, 10) + RoundDiv(3 * shape, 10)
                                 + RoundDiv(101 * FxOne, 100)
                     log_target == logf(FxOne - RoundDiv(FxOne * FxOne, target))
                 IN [s1 EXCEPT !.attack_level = target,
                               !.attack_d0 = FxOne - expf(RoundDiv(log_target * FxOne,
                                                                   StageSamples(self, seconds)))]
            ELSE s1
    ELSE self

\* Envelope::set_attack_time
set_attack_time(self, seconds, shape) ==
    IF (seconds # self.attack_time) \/ (shape # self.attack_shape)
    THEN LET s1 == [self EXCEPT !.attack_time = seconds, !.attack_shape = shape]
         IN IF seconds > 0
            THEN LET target == 9 * powf(shape, 10) + RoundDiv(3 * shape, 10)
                                 + RoundDiv(101 * FxOne, 100)
                     log_target == logf(FxOne - RoundDiv(FxOne * FxOne, target))
                 IN [s1 EXCEPT !.attack_level = target,
                               !.attack_d0 = FxOne - expf(RoundDiv(log_target * FxOne,
                                                                   StageSamples(self, seconds)))]
            ELSE [s1 EXCEPT !.attack_d0 = FxOne]
    ELSE self

\* Envelope::set_decay_time
set_decay_time(self, seconds) ==
    IF seconds # self.decay_time
    THEN LET s1 == [self EXCEPT !.decay_time = seconds]
         IN IF s1.decay_time > 0
            THEN LET target == logf(RoundDiv(FxOne * FxOne, M_E))
                 IN [s1 EXCEPT !.decay_d0 = FxOne - expf(RoundDiv(target * FxOne,
                                                                  StageSamples(self, s1.decay_time)))]
            ELSE [s1 EXCEPT !.decay_d0 = FxOne]
    ELSE self

\* Envelope::set_release_time
set_release_time(self, seconds) ==
    IF seconds # self.release_time
    THEN LET s1 == [self EXCEPT !.release_time = seconds]
         IN IF s1.release_time > 0
            THEN LET target == logf(RoundDiv(FxOne * FxOne, M_E))
                 IN [s1 EXCEPT !.release_d0 = FxOne - expf(RoundDiv(target * FxOne,
                                                                    StageSamples(self, s1.release_time)))]
            ELSE [s1 EXCEPT !.release_d0 = FxOne]
    ELSE self

\* Envelope::set_sustain_level
set_sustain_level(self, level) ==
    IF level <= 0 THEN [self EXCEPT !.sustain_level = NegFloor]
    ELSE IF level > FxOne THEN [self EXCEPT !.sustain_level = FxOne]
    ELSE [self EXCEPT !.sustain_level = level]

\* Envelope::new
Envelope_new(sample_rate) ==
    LET fresh == [sample_rate |-> sample_rate,
                  attack_time |-> -FxOne,
                  attack_level |-> 0,
                  decay_time |-> -FxOne,
                  sustain_level |-> 0,
                  release_time |-> -FxOne,
                  attack_shape |-> -FxOne,
                  attack_d0 |-> 0,
                  decay_d0 |-> 0,
                  release_d0 |-> 0,
                  stage |-> "Init",
                  gate |-> FALSE,
                  x |-> 0]
    IN set_release_time(
           set_decay_time(
               set_attack_time(fresh, FxOne \div 10, 0),
               FxOne \div 10),
           FxOne \div 10)

\* Envelope::process, lines 167-173: the stage after the gate edge test.
\* self.gate is read here and written nowhere in process.
EdgeStage(self, gate) ==
    IF gate /\ ~self.gate THEN "Attack"
    ELSE IF ~gate /\ self.gate THEN "Release"
    ELSE self.stage

\* Envelope::process (the faulty variant: the Attack arm does not clamp).
process_noclamp(self, gate) ==
    LET s1 == [self EXCEPT !.stage = EdgeStage(self, gate)]
        d0 == IF s1.stage = "Decay" THEN s1.decay_d0
              ELSE IF s1.stage = "Release" THEN s1.release_d0
              ELSE s1.attack_d0
    IN CASE s1.stage = "Init" -> [self |-> s1, out |-> 0]
         [] s1.stage = "Attack" ->
              LET nx == s1.x + FxMul(d0, s1.attack_level - s1.x)
              IN [self |-> [s1 EXCEPT !.x = nx,
                                      !.stage = IF nx > FxOne THEN "Decay" ELSE "Attack"],
                  out |-> nx]
         [] OTHER ->
              LET target == IF s1.stage = "Decay" THEN s1.sustain_level ELSE NegFloor
                  nx == s1.x + FxMul(d0, target - s1.x)
              IN IF nx < 0
                 THEN [self |-> [s1 EXCEPT !.x = 0, !.stage = "Init"], out |-> 0]
                 ELSE [self |-> [s1 EXCEPT !.x = nx], out |-> nx]

\* Envelope::process (the faulty variant: the stage is kept when the value
\* drops below 0.0).
process_stay(self, gate) ==
    LET s1 == [self EXCEPT !.stage = EdgeStage(self, gate)]
        d0 == IF s1.stage = "Decay" THEN s1.decay_d0
              ELSE IF s1.stage = "Release" THEN s1.release_d0
              ELSE s1.attack_d0
    IN CASE s1.stage = "Init" -> [self |-> s1, out |-> 0]
         [] s1.stage = "Attack" ->
              LET nx == s1.x + FxMul(d0, s1.attack_level - s1.x)
              IN IF nx > FxOne
                 THEN [self |-> [s1 EXCEPT !.x = FxOne, !.stage = "Decay"], out |-> FxOne]
                 ELSE [self |-> [s1 EXCEPT !.x = nx], out |-> nx]
         [] OTHER ->
              LET target == IF s1.stage = "Decay" THEN s1.sustain_level ELSE NegFloor
                  nx == s1.x + FxMul(d0, target - s1.x)
              IN IF nx < 0
                 THEN [self |-> [s1 EXCEPT !.x = 0], out |-> 0]
                 ELSE [self |-> [s1 EXCEPT !.x = nx], out |-> nx]

\* Envelope::process: the updated envelope and the returned value.
process(self, gate) ==
    LET s1 == [self EXCEPT !.stage = EdgeStage(self, gate)]
        d0 == IF s1.stage = "Decay" THEN s1.decay_d0
              ELSE IF s1.stage = "Release" THEN s1.release_d0
              ELSE s1.attack_d0
    IN CASE s1.stage = "Init" -> [self |-> s1, out |-> 0]
         [] s1.stage = "Attack" ->
              LET nx == s1.x + FxMul(d0, s1.attack_level - s1.x)
              IN IF nx > FxOne
                 THEN [self |-> [s1 EXCEPT !.x = FxOne, !.stage = "Decay"], out |-> FxOne]
                 ELSE [self |-> [s1 EXCEPT !.x = nx], out |-> nx]
         [] OTHER ->
              LET target == IF s1.stage = "Decay" THEN s1.sustain_level ELSE NegFloor
                  nx == s1.x + FxMul(d0, target - s1.x)
              IN IF nx < 0
                 THEN [self |-> [s1 EXCEPT !.x = 0, !.stage = "Init"], out |-> 0]
                 ELSE [self |-> [s1 EXCEPT !.x = nx], out |-> nx]

(***************************************************************************)
(* core/mod.rs: Hertz                                                      *)
(*                                                                         *)
(* A frequency is an integer number of 1/HzScale hertz.                    *)
(***************************************************************************)

\* Units per hertz: a frequency unit is 0.00001 Hz.
HzScale == 100000

\* The tolerance of Hertz's PartialEq, 0.000_1 Hz.
HertzEps == HzScale \div 10000

\* impl PartialEq for Hertz: float_eq!(self.0, other.0, abs <= 0.000_1)
Hertz_eq(a, b) == (IF a >= b THEN a - b ELSE b - a) <= HertzEps

\* impl Hash for Hertz: the hash is taken of the bit pattern of the value, so
\* two frequencies hash alike exactly when they are the same number.
Hertz_hash(a) == a

(***************************************************************************)
(* audio/oscillator/mod.rs: waveforms and build_table                      *)
(*                                                                         *)
(* A phase is a number of cycles. For sample rate sr a phase is modelled   *)
(* as the integer phase * PhaseDen(sr) and a sample value v as the integer *)
(* v * PhaseDen(sr), so that index / sample_rate * frequency is exact.     *)
(***************************************************************************)

\* The denominator of phases and sample values for a sample rate.
PhaseDen(sample_rate) == sample_rate * HzScale

\* DutyCycle::to_fractional, in thousandths.
to_fractional(duty_cycle) ==
    CASE duty_cycle = "Eight" -> 125
      [] duty_cycle = "Quarter" -> 250
      [] duty_cycle = "Third" -> 330
      [] duty_cycle = "Half" -> 500

\* f32::sin of a number of turns (phase / den), in thousandths:
\* sin(pi x) ~ 16 x (1 - x) / (5 - 4 x (1 - x)) on each half turn, with the
\* phase taken to the nearest thousandth of a turn.
SinMilli(phase, den) ==
    LET q == RoundDiv((phase % den) * 1000, den) % 1000
        h == q % 500
        a == h * (500 - h)
        v == RoundDiv(16 * a * 1000, 1250000 - 4 * a)
    IN IF q < 500 THEN v ELSE -v

\* f32::sin of a number of cycles (phase / den), as a value times den.
SinCycles(phase, den) == RoundDiv(SinMilli(phase, den) * den, 1000)

\* sine(phase): (2.0 * PI * phase).sin()
sine(phase, den) == SinCycles(phase, den)

\* saw(phase): 1.0 - (phase % 1.0) * 2.0
saw(phase, den) == den - (phase % den) * 2

\* triangle(phase)
triangle(phase, den) ==
    LET slope == (phase % den) * 2
    IN IF slope < den THEN -den + slope * 2 ELSE 3 * den - slope * 2

\* square(phase, duty_cycle)
square(phase, duty_cycle, den) ==
    IF (phase % den) * 1000 < to_fractional(duty_cycle) * den THEN den ELSE -den

\* The phase of sample_saw, sample_triangle and sample_square:
\* index as f32 / sample_rate as f32 * frequency.0 (and, for sample_sine,
\* frequency.0 * index as f32 / sample_rate as f32).
IndexPhase(index, frequency) == index * frequency

\* OscillatorType::sample_index
sample_index(osc, index, sample_rate, frequency, duty_cycle) ==
    CASE osc = "Sine" -> sine(IndexPhase(index, frequency), PhaseDen(sample_rate))
      [] osc = "Saw" -> saw(IndexPhase(index, frequency), PhaseDen(sample_rate))
      [] osc = "Triangle" -> triangle(IndexPhase(index, frequency), PhaseDen(sample_rate))
      [] osc = "Square" -> square(IndexPhase(index, frequency), duty_cycle,
                                  PhaseDen(sample_rate))

\* const PI2: f32 = PI * 2.0, in thousandths of a radian.
PI2 == 6283

\* build_table's Sine arm (the faulty variant: the sample rate is left out).
SineMult_norate(sample_rate, frequency) ==
    (frequency * PI2 + HzScale \div 2) \div HzScale

\* build_table's Sine arm: mult = frequency.0 * PI2 / sample_rate as f32, a
\* number of thousandths of a radian, rounded to the nearest.
SineMult(sample_rate, frequency) ==
    (frequency * PI2 + (sample_rate * HzScale) \div 2) \div (sample_rate * HzScale)

\* f32::sin of an angle in thousandths of a radian, as a value times den.
SinRadians(angle, den) == RoundDiv(SinMilli(angle, PI2) * den, 1000)

\* OscillatorType::build_table (the faulty variant: a buffer shorter than the
\* sample rate is accepted and filled).
build_table_atmost(osc, table, sample_rate, frequency, duty_cycle) ==
    IF Len(table) > sample_rate
    THEN [result |-> [err |-> "IncorrectSize", expected |-> sample_rate,
                      actual |-> Len(table)],
          table |-> table,
          written |-> {}]
    ELSE [result |-> [err |-> "Ok", expected |-> 0, actual |-> 0],
          table |-> [i \in 1..Len(table) |->
                        sample_index(osc, i - 1, sample_rate, frequency, duty_cycle)],
          written |-> 1..Len(table)]

\* OscillatorType::build_table: the result, the buffer afterwards and the set
\* of elements written (1-based). The Sine arm computes (index * mult).sin()
\* with mult = frequency * PI2 / sample_rate rounded once, the other arms
\* sample_index.
build_table(osc, table, sample_rate, frequency, duty_cycle) ==
    IF Len(table) # sample_rate
    THEN [result |-> [err |-> "IncorrectSize", expected |-> sample_rate,
                      actual |-> Len(table)],
          table |-> table,
          written |-> {}]
    ELSE [result |-> [err |-> "Ok", expected |-> 0, actual |-> 0],
          table |-> [i \in 1..Len(table) |->
                        IF osc = "Sine"
                        THEN SinRadians((i - 1) * SineMult(sample_rate, frequency),
                                        PhaseDen(sample_rate))
                        ELSE sample_index(osc, i - 1, sample_rate, frequency, duty_cycle)],
          written |-> 1..Len(table)]

(***************************************************************************)
(* audio/oscillator/mod.rs: RuntimeOscillator and LookupOscillator         *)
(***************************************************************************)

\* OscillatorType::sample
OscillatorType_sample(osc, phase, duty_cycle, den) ==
    CASE osc = "Sine" -> sine(phase, den)
      [] osc = "Saw" -> saw(phase, den)
      [] osc = "Triangle" -> triangle(phase, den)
      [] osc = "Square" -> square(phase, duty_cycle, den)

\* RuntimeOscillator::new
RuntimeOscillator_new(osc_type, sample_rate, frequency) ==
    [osc_type |-> osc_type, sample_rate |-> sample_rate, frequency |-> frequency,
     duty_cycle |-> "Half", phase |-> 0]

\* Oscillator::sample for RuntimeOscillator: the sample at the phase, and the
\* phase advanced by frequency / sample_rate (it is never wrapped).
RuntimeOscillator_sample(self) ==
    [self |-> [self EXCEPT !.phase = @ + self.frequency],
     out |-> OscillatorType_sample(self.osc_type, self.phase, self.duty_cycle,
                                   PhaseDen(self.sample_rate))]

\* LookupOscillator::new_from_table: the table's length is not compared with
\* the sample rate.
new_from_table(sample_rate, table) ==
    [sample_rate |-> sample_rate, table |-> table, index |-> 0]

\* The index after a sample: it returns to 0 on reaching the sample rate.
NextIndex(self) ==
    IF self.index + 1 >= self.sample_rate THEN 0 ELSE self.index + 1

\* Oscillator::sample for LookupOscillator: self.table[self.index] panics when
\* the index is not below the table's length.
LookupOscillator_sample(self) ==
    IF self.index >= Len(self.table)
    THEN [self |-> self, out |-> 0, panic |-> TRUE]
    ELSE [self |-> [self EXCEPT !.index = NextIndex(self)],
          out |-> self.table[self.index + 1],
          panic |-> FALSE]

(***************************************************************************)
(* audio/oscillator/variable.rs: VariableShapeOscillator                   *)
(*                                                                         *)
(* Phases, frequencies in cycles per sample, pulse widths and sample       *)
(* values are f32 in fixed point. A division by zero gives an infinity or  *)
(* a NaN, and every sum, difference and product of one of those is one of  *)
(* those again: they are all held as NonFinite.                            *)
(***************************************************************************)

\* An f32 infinity or NaN.
NonFinite == 2000000000

\* a + b, a - b, a * b and a / b of f32 values.
fadd(a, b) == IF a = NonFinite \/ b = NonFinite THEN NonFinite ELSE a + b
fsub(a, b) == IF a = NonFinite \/ b = NonFinite THEN NonFinite ELSE a - b
fmul(a, b) ==
    IF a = NonFinite \/ b = NonFinite
    THEN NonFinite
    ELSE a * (b \div FxOne) + RoundDiv(a * (b % FxOne), FxOne)
fdiv(a, b) ==
    CASE a = NonFinite \/ b = NonFinite \/ b = 0 -> NonFinite
      [] b > 0 -> RoundDiv(a * FxOne, b)
      [] OTHER -> RoundDiv((0 - a) * FxOne, 0 - b)

\* The literals 0.25 and 0.5.
Quarter == FxOne \div 4
Half == FxOne \div 2

\* libm::fmaxf(a, 0.0)
fmaxf0(a) == IF a > 0 THEN a ELSE 0

\* fn compute_naive_sample
compute_naive_sample(phase, pw, slope_up, slope_down, triangle_amount, square_amount) ==
    LET square_part == IF phase < pw THEN 0 ELSE FxOne
        triangle_part == IF phase < pw
                         THEN fmul(phase, slope_up)
                         ELSE fsub(FxOne, fmul(phase - pw, slope_down))
        saw1 == fadd(phase, fmul(fsub(square_part, phase), square_amount))
    IN  fadd(saw1, fmul(fsub(triangle_part, saw1), triangle_amount))

\* fn this_blep_sample: 0.5 * t * t
this_blep_sample(t) == fmul(fmul(Half, t), t)

\* fn next_blep_sample: t = 1.0 - t; -0.5 * t * t
next_blep_sample(t) == fmul(fmul(0 - Half, fsub(FxOne, t)), fsub(FxOne, t))

\* fn next_integrated_blep_sample: 0.1875 - t1 + 1.5 * t2 - t4
next_integrated_blep_sample(t) ==
    LET t1 == fmul(Half, t)
        t2 == fmul(t1, t1)
        t4 == fmul(t2, t2)
    IN  fsub(fadd(fsub(RoundDiv(1875 * FxOne, 10000), t1), fmul((3 * FxOne) \div 2, t2)), t4)

\* fn this_integrated_blep_sample
this_integrated_blep_sample(t) == next_integrated_blep_sample(fsub(FxOne, t))

\* frequency.hertz() / self.sample_rate as f32; a ratio of a cycle per sample
\* or more is held as one cycle: it is only compared with 0.25.
CyclesPerSample(frequency, sample_rate) ==
    IF frequency >= HzScale * sample_rate
    THEN FxOne
    ELSE RoundDiv(frequency * FxOne, HzScale * sample_rate)

\* VariableShapeOscillator::set_frequency (the faulty variant: no ceiling).
Vso_set_frequency_nocap(self, frequency) ==
    [self EXCEPT !.master_frequency = CyclesPerSample(frequency, self.sample_rate)]

\* VariableShapeOscillator::set_frequency
Vso_set_frequency(self, frequency) ==
    LET freq == CyclesPerSample(frequency, self.sample_rate)
    IN  [self EXCEPT !.master_frequency = IF freq >= Quarter THEN Quarter ELSE freq]

\* f32::clamp(min, max)
clamp(v, min, max) == IF v < min THEN min ELSE IF v > max THEN max ELSE v

\* VariableShapeOscillator::set_pulse_width
Vso_set_pulse_width(self, pw) ==
    IF self.slave_frequency >= Quarter
    THEN [self EXCEPT !.pulse_width = Half]
    ELSE [self EXCEPT !.pulse_width =
              clamp(pw, self.slave_frequency * 2, FxOne - 2 * self.slave_frequency)]

\* VariableShapeOscillator::set_waveshape
Vso_set_waveshape(self, waveshape) == [self EXCEPT !.waveshape = waveshape]

\* VariableShapeOscillator::set_sync
Vso_set_sync(self, sync) == [self EXCEPT !.enable_sync = sync]

\* VariableShapeOscillator::set_sync_frequency
Vso_set_sync_frequency(self, frequency) ==
    LET freq == CyclesPerSample(frequency, self.sample_rate)
    IN  [self EXCEPT !.pulse_width = IF freq >= Quarter THEN Half ELSE self.pulse_width,
                     !.slave_frequency = IF freq >= Quarter THEN Quarter ELSE freq]

\* VariableShapeOscillator::new
VariableShapeOscillator_new(sample_rate) ==
    LET osc == [sample_rate |-> sample_rate,
                enable_sync |-> FALSE,
                master_phase |-> 0,
                slave_phase |-> 0,
                next_sample |-> 0,
                previous_pw |-> Half,
                high |-> FALSE,
                master_frequency |-> 0,
                slave_frequency |-> FxOne \div 10,
                pulse_width |-> Half,
                waveshape |-> 0]
    IN  Vso_set_sync_frequency(
            Vso_set_sync(
                Vso_set_pulse_width(
                    Vso_set_waveshape(Vso_set_frequency(osc, 440 * HzScale), 0),
                    0),
                FALSE),
            220 * HzScale)

\* The while loop of sample (faulty variant: the slave phase is left as it is
\* when it reaches 1.0).
RECURSIVE EdgeLoop_nowrap(_, _)
EdgeLoop_nowrap(self, st) ==
    IF ~st.high /\ st.slave_phase < self.pulse_width THEN st ELSE [st EXCEPT !.high = TRUE]

\* The while loop of sample (faulty variant: the falling edge takes a tenth
\* of a cycle off the slave phase, not a whole cycle).
RECURSIVE EdgeLoop_shortwrap(_, _)
EdgeLoop_shortwrap(self, st) ==
    LET square_amount == fmaxf0(self.waveshape - Half) * 2
        triangle_amount == fmaxf0(FxOne - self.waveshape * 2)
        slope_up == fdiv(FxOne, self.pulse_width)
        slope_down == fdiv(FxOne, FxOne - self.pulse_width)
        triangle_step ==
            fmul(fmul(fadd(slope_up, slope_down), self.slave_frequency), triangle_amount)
        t_up == fdiv(st.slave_phase - self.pulse_width,
                     self.previous_pw - self.pulse_width + self.slave_frequency)
        risen ==
            IF st.high
            THEN st
            ELSE [st EXCEPT
                    !.this_sample =
                        fsub(fadd(st.this_sample, fmul(square_amount, this_blep_sample(t_up))),
                             fmul(triangle_step, this_integrated_blep_sample(t_up))),
                    !.next_sample =
                        fsub(fadd(st.next_sample, fmul(square_amount, next_blep_sample(t_up))),
                             fmul(triangle_step, next_integrated_blep_sample(t_up))),
                    !.high = TRUE,
                    !.edges = st.edges + 1]
        wrapped == risen.slave_phase - FxOne \div 10
        t_down == fdiv(wrapped, self.slave_frequency)
        fallen ==
            [risen EXCEPT
                !.slave_phase = wrapped,
                !.this_sample =
                    fadd(fsub(risen.this_sample,
                              fmul(FxOne - triangle_amount, this_blep_sample(t_down))),
                         fmul(triangle_step, this_integrated_blep_sample(t_down))),
                !.next_sample =
                    fadd(fsub(risen.next_sample,
                              fmul(FxOne - triangle_amount, next_blep_sample(t_down))),
                         fmul(triangle_step, next_integrated_blep_sample(t_down))),
                !.high = FALSE,
                !.edges = risen.edges + 1]
    IN  IF ~st.high /\ st.slave_phase < self.pulse_width THEN st
        ELSE IF risen.slave_phase < FxOne THEN risen
        ELSE EdgeLoop_shortwrap(self, fallen)

\* The while loop of sample, from the top of one iteration: st holds
\* self.slave_phase, self.high, this_sample and next_sample, and counts the
\* edges passed.
RECURSIVE EdgeLoop(_, _)
EdgeLoop(self, st) ==
    LET square_amount == fmaxf0(self.waveshape - Half) * 2
        triangle_amount == fmaxf0(FxOne - self.waveshape * 2)
        slope_up == fdiv(FxOne, self.pulse_width)
        slope_down == fdiv(FxOne, FxOne - self.pulse_width)
        triangle_step ==
            fmul(fmul(fadd(slope_up, slope_down), self.slave_frequency), triangle_amount)
        t_up == fdiv(st.slave_phase - self.pulse_width,
                     self.previous_pw - self.pulse_width + self.slave_frequency)
        risen ==
            IF st.high
            THEN st
            ELSE [st EXCEPT
                    !.this_sample =
                        fsub(fadd(st.this_sample, fmul(square_amount, this_blep_sample(t_up))),
                             fmul(triangle_step, this_integrated_blep_sample(t_up))),
                    !.next_sample =
                        fsub(fadd(st.next_sample, fmul(square_amount, next_blep_sample(t_up))),
                             fmul(triangle_step, next_integrated_blep_sample(t_up))),
                    !.high = TRUE,
                    !.edges = st.edges + 1]
        wrapped == risen.slave_phase - FxOne
        t_down == fdiv(wrapped, self.slave_frequency)
        fallen ==
            [risen EXCEPT
                !.slave_phase = wrapped,
                !.this_sample =
                    fadd(fsub(risen.this_sample,
                              fmul(FxOne - triangle_amount, this_blep_sample(t_down))),
                         fmul(triangle_step, this_integrated_blep_sample(t_down))),
                !.next_sample =
                    fadd(fsub(risen.next_sample,
                              fmul(FxOne - triangle_amount, next_blep_sample(t_down))),
                         fmul(triangle_step, next_integrated_blep_sample(t_down))),
                !.high = FALSE,
                !.edges = risen.edges + 1]
    IN  IF ~st.high /\ st.slave_phase < self.pulse_width THEN st
        ELSE IF risen.slave_phase < FxOne THEN risen
        ELSE EdgeLoop(self, fallen)

\* VariableShapeOscillator::sample: the object after the call, the sample
\* returned, and whether and when the master phase wrapped.
VariableShapeOscillator_sample(self) ==
    LET square_amount == fmaxf0(self.waveshape - Half) * 2
        triangle_amount == fmaxf0(FxOne - self.waveshape * 2)
        slope_up == fdiv(FxOne, self.pulse_width)
        slope_down == fdiv(FxOne, FxOne - self.pulse_width)
        advanced == self.master_phase + self.master_frequency
        reset == self.enable_sync /\ advanced >= FxOne
        master_phase ==
            IF ~self.enable_sync THEN self.master_phase
            ELSE IF reset THEN advanced - FxOne ELSE advanced
        reset_time == IF reset THEN fdiv(master_phase, self.master_frequency) ELSE 0
        at_reset == self.slave_phase + fmul(FxOne - reset_time, self.slave_frequency)
        slave_phase_at_reset == IF at_reset >= FxOne THEN at_reset - FxOne ELSE at_reset
        transition_during_reset ==
            reset /\ (\/ at_reset >= FxOne
                      \/ ~self.high /\ slave_phase_at_reset >= self.pulse_width)
        value == compute_naive_sample(slave_phase_at_reset, self.pulse_width, slope_up,
                                      slope_down, triangle_amount, square_amount)
        entry == [slave_phase |-> self.slave_phase + self.slave_frequency,
                  high |-> self.high,
                  this_sample |->
                      IF reset
                      THEN fsub(self.next_sample, fmul(value, this_blep_sample(reset_time)))
                      ELSE self.next_sample,
                  next_sample |->
                      IF reset
                      THEN fsub(0, fmul(value, next_blep_sample(reset_time)))
                      ELSE 0,
                  edges |-> 0]
        looped == IF transition_during_reset \/ ~reset THEN EdgeLoop(self, entry) ELSE entry
        slave_phase == IF reset THEN fmul(reset_time, self.slave_frequency) ELSE looped.slave_phase
        high == IF reset THEN FALSE ELSE looped.high
    IN  [self |-> [self EXCEPT
                      !.master_phase = master_phase,
                      !.slave_phase = slave_phase,
                      !.high = high,
                      !.previous_pw = self.pulse_width,
                      !.next_sample =
                          fadd(looped.next_sample,
                               compute_naive_sample(slave_phase, self.pulse_width, slope_up,
                                                    slope_down, triangle_amount, square_amount))],
         out |-> fsub(fmul(2 * FxOne, looped.this_sample), FxOne),
         reset |-> reset,
         reset_time |-> reset_time,
         edges |-> looped.edges]

(***************************************************************************)
(* audio/oscillator/mod.rs: OscillatorAllocator                            *)
(*                                                                         *)
(* A table buffer has an identity: the buffer an entry of the map owns is  *)
(* CacheCell(i), a buffer handed to the caller by value is CallerCell.     *)
(***************************************************************************)

\* The const generics of the modelled allocator.
SAMPLE_RATE == 4
MAX_TABLES == 2

CacheCell(i) == <<"cache", i>>
CallerCell == <<"caller", 0>>

\* RefCell::clone: a new RefCell holding a clone of the borrowed array.
RefCell_clone(cell) == [id |-> CallerCell, table |-> cell.table]

\* The closure of the find (the faulty variant: the duty cycle is not compared).
EntryMatches_noduty(entry, osc, frequency, duty_cycle) ==
    /\ entry.key.osc = osc
    /\ Hertz_eq(entry.key.frequency, frequency)

\* The closure of the find in lookup_or_allocate, line 451.
EntryMatches(entry, osc, frequency, duty_cycle) ==
    /\ entry.key.osc = osc
    /\ Hertz_eq(entry.key.frequency, frequency)
    /\ entry.key.duty_cycle = duty_cycle

\* self.lookup.iter().find(..): the index of the first matching entry, 0 for None.
find(self, osc, frequency, duty_cycle) ==
    IF \E i \in 1..Len(self) : EntryMatches(self[i], osc, frequency, duty_cycle)
    THEN CHOOSE i \in 1..Len(self) :
            /\ EntryMatches(self[i], osc, frequency, duty_cycle)
            /\ \A j \in 1..(i - 1) : ~EntryMatches(self[j], osc, frequency, duty_cycle)
    ELSE 0

\* The key of an entry is found by its hash and then by equality.
SameSlot(k1, k2) ==
    /\ k1.osc = k2.osc /\ k1.duty_cycle = k2.duty_cycle
    /\ Hertz_hash(k1.frequency) = Hertz_hash(k2.frequency)
    /\ Hertz_eq(k1.frequency, k2.frequency)

\* FnvIndexMap::insert (the faulty variant: a full map drops its oldest entry
\* to make room).
IndexMap_insert_evict(self, key, table, capacity) ==
    IF \E i \in 1..Len(self) : SameSlot(self[i].key, key)
    THEN LET i == CHOOSE i \in 1..Len(self) : SameSlot(self[i].key, key)
         IN [ok |-> TRUE, map |-> [self EXCEPT ![i].table = table]]
    ELSE IF Len(self) >= capacity
    THEN [ok |-> TRUE,
          map |-> Append(Tail(self), [key |-> key, id |-> CacheCell(Len(self)),
                                      table |-> table])]
    ELSE [ok |-> TRUE,
          map |-> Append(self, [key |-> key, id |-> CacheCell(Len(self) + 1),
                                table |-> table])]

\* FnvIndexMap::insert as lookup_or_allocate uses it: the value of an equal key
\* already present is replaced, a full map refuses (Err), otherwise the entry
\* is appended.
IndexMap_insert(self, key, table, capacity) ==
    IF \E i \in 1..Len(self) : SameSlot(self[i].key, key)
    THEN LET i == CHOOSE i \in 1..Len(self) : SameSlot(self[i].key, key)
         IN [ok |-> TRUE, map |-> [self EXCEPT ![i].table = table]]
    ELSE IF Len(self) >= capacity
    THEN [ok |-> FALSE, map |-> self]
    ELSE [ok |-> TRUE,
          map |-> Append(self, [key |-> key, id |-> CacheCell(Len(self) + 1),
                                table |-> table])]

\* No table is returned.
NoTable == [id |-> <<"none", 0>>, table |-> <<>>]

\* OscillatorAllocator::lookup_or_allocate (the faulty variant: the table is
\* built for a sample rate that is one more than its length).
lookup_or_allocate_rate(self, osc, frequency, duty_cycle) ==
    LET hit == find(self, osc, frequency, duty_cycle)
    IN IF hit # 0
       THEN [self |-> self, result |-> "Ok", ret |-> RefCell_clone(self[hit]),
             entry |-> hit, created |-> 1]
       ELSE LET zeros == [i \in 1..SAMPLE_RATE |-> 0]
                built == build_table(osc, zeros, SAMPLE_RATE + 1, frequency, duty_cycle)
                ins == IndexMap_insert(self,
                                       [osc |-> osc, frequency |-> frequency,
                                        duty_cycle |-> duty_cycle],
                                       built.table, MAX_TABLES)
            IN IF built.result.err # "Ok"
               THEN [self |-> self, result |-> built.result.err, ret |-> NoTable,
                     entry |-> 0, created |-> 0]
               ELSE IF ~ins.ok
               THEN [self |-> self, result |-> "TableFull", ret |-> NoTable,
                     entry |-> 0, created |-> 0]
               ELSE [self |-> ins.map, result |-> "Ok",
                     ret |-> [id |-> CallerCell, table |-> built.table],
                     entry |-> Len(ins.map), created |-> 2]

\* OscillatorAllocator::lookup_or_allocate: the map afterwards, the result, the
\* RefCell returned (by value), the entry that served the call and the number
\* of table buffers the call created and left alive.
lookup_or_allocate(self, osc, frequency, duty_cycle) ==
    LET hit == find(self, osc, frequency, duty_cycle)
    IN IF hit # 0
       THEN [self |-> self, result |-> "Ok", ret |-> RefCell_clone(self[hit]),
             entry |-> hit, created |-> 1]
       ELSE LET zeros == [i \in 1..SAMPLE_RATE |-> 0]
                built == build_table(osc, zeros, SAMPLE_RATE, frequency, duty_cycle)
                ins == IndexMap_insert(self,
                                       [osc |-> osc, frequency |-> frequency,
                                        duty_cycle |-> duty_cycle],
                                       built.table, MAX_TABLES)
            IN IF built.result.err # "Ok"
               THEN [self |-> self, result |-> built.result.err, ret |-> NoTable,
                     entry |-> 0, created |-> 0]
               ELSE IF ~ins.ok
               THEN [self |-> self, result |-> "TableFull", ret |-> NoTable,
                     entry |-> 0, created |-> 0]
               ELSE [self |-> ins.map, result |-> "Ok",
                     ret |-> [id |-> CallerCell, table |-> built.table],
                     entry |-> Len(ins.map), created |-> 2]

(***************************************************************************)
(* audio/sample/conv.rs: integer arithmetic                                *)
(*                                                                         *)
(* An integer of an n-bit type is the sequence of its n bits, the most     *)
(* significant first, in two's complement for the signed types. I24 and    *)
(* U24 wrap an i32 and I48 and U48 an i64, as their inner() shows.         *)
(***************************************************************************)

\* n bits that are all b.
Fill(n, b) == [i \in 1..n |-> b]

\* The literal 2^p of an n-bit type: 128 is Pow2(n, 7).
Pow2(n, p) == [i \in 1..n |-> IF i = n - p THEN 1 ELSE 0]

\* The literal 2^k - 1 of an n-bit type: 127 is Ones(n, 7).
Ones(n, k) == [i \in 1..n |-> IF i > n - k THEN 1 ELSE 0]

\* The low k bits.
Low(bits, k) == SubSeq(bits, Len(bits) - k + 1, Len(bits))

\* `as` from a signed type (the faulty variant: zeros are filled in).
CastSigned_zero(bits, n) ==
    IF n >= Len(bits) THEN Fill(n - Len(bits), 0) \o bits ELSE Low(bits, n)

\* `as` from a signed type to an n-bit type: sign extension or truncation.
CastSigned(bits, n) ==
    IF n >= Len(bits) THEN Fill(n - Len(bits), bits[1]) \o bits ELSE Low(bits, n)

\* `as` from an unsigned type to an n-bit type: zero extension or truncation.
CastUnsigned(bits, n) ==
    IF n >= Len(bits) THEN Fill(n - Len(bits), 0) \o bits ELSE Low(bits, n)

\* s << k
Shl(bits, k) == SubSeq(bits, k + 1, Len(bits)) \o Fill(k, 0)

\* s >> k of a signed type (the faulty variant: zeros are shifted in).
ShrSigned_logical(bits, k) == Fill(k, 0) \o SubSeq(bits, 1, Len(bits) - k)

\* s >> k of a signed type: the sign bit is shifted in.
ShrSigned(bits, k) == Fill(k, bits[1]) \o SubSeq(bits, 1, Len(bits) - k)

\* s >> k of an unsigned type.
ShrUnsigned(bits, k) == Fill(k, 0) \o SubSeq(bits, 1, Len(bits) - k)

\* The bits of a natural number below 2^n, for n up to 31.
RECURSIVE NatBits(_, _)
NatBits(n, v) == IF n = 0 THEN <<>> ELSE Append(NatBits(n - 1, v \div 2), v % 2)

\* The i-th byte, the most significant being the first, as a number.
ByteAt(a, i) ==
    128 * a[8 * i - 7] + 64 * a[8 * i - 6] + 32 * a[8 * i - 5] + 16 * a[8 * i - 4]
    + 8 * a[8 * i - 3] + 4 * a[8 * i - 2] + 2 * a[8 * i - 1] + a[8 * i]

\* The bytes 1..i of a + b, given the carry into byte i.
RECURSIVE AddFrom(_, _, _, _)
AddFrom(a, b, i, carry) ==
    IF i = 0
    THEN <<>>
    ELSE AddFrom(a, b, i - 1, (ByteAt(a, i) + ByteAt(b, i) + carry) \div 256)
         \o NatBits(8, (ByteAt(a, i) + ByteAt(b, i) + carry) % 256)

\* a + b (the faulty variant: no carry passes from one byte to the next).
Add_nocarry(a, b) ==
    IF Len(a) = 8
    THEN AddFrom(a, b, 1, 0)
    ELSE AddFrom(SubSeq(a, 1, Len(a) - 8), SubSeq(b, 1, Len(b) - 8), Len(a) \div 8 - 1, 0)
         \o AddFrom(Low(a, 8), Low(b, 8), 1, 0)

\* a + b and a - b in the width of a, wrapping.
Add(a, b) == AddFrom(a, b, Len(a) \div 8, 0)
Not(a) == [i \in 1..Len(a) |-> 1 - a[i]]
Neg(a) == Add(Not(a), Pow2(Len(a), 0))
Sub(a, b) == Add(a, Neg(b))

\* s < 0 of a signed type.
IsNegative(bits) == bits[1] = 1

\* s < 2^p of an unsigned type.
BelowPow2(bits, p) == \A i \in 1..(Len(bits) - p) : bits[i] = 0

(***************************************************************************)
(* audio/sample/conv.rs: floating point                                    *)
(*                                                                         *)
(* A float is [neg, mag, frac]: the number mag / 2^frac, negated when neg, *)
(* with mag a 64-bit magnitude; the lowest bit of mag is 1 unless frac is  *)
(* 0. An f32 has 24 significant bits and an f64 has 53.                    *)
(***************************************************************************)

\* The magnitude of a signed integer, as 64 bits.
Magnitude(bits) ==
    IF IsNegative(bits) THEN CastUnsigned(Neg(bits), 64) ELSE CastUnsigned(bits, 64)

\* The number of bits of a magnitude from its leading 1 down.
SigBits(mag) ==
    IF \A i \in 1..64 : mag[i] = 0
    THEN 0
    ELSE 65 - (CHOOSE i \in 1..64 : mag[i] = 1 /\ \A j \in 1..(i - 1) : mag[j] = 0)

\* A magnitude rounded to p significant bits, to the nearest and on a tie to
\* the even one.
RoundTo(mag, p) ==
    IF SigBits(mag) <= p
    THEN mag
    ELSE LET d == SigBits(mag) - p
             q == ShrUnsigned(mag, d)
             rem == Low(mag, d)
             up == rem[1] = 1 /\ (q[64] = 1 \/ \E i \in 2..d : rem[i] = 1)
         IN Shl(IF up THEN Add(q, Pow2(64, 0)) ELSE q, d)

\* The number of 0 bits below the lowest 1 bit (64 for zero).
TrailingZeros(mag) ==
    IF \A i \in 1..64 : mag[i] = 0
    THEN 64
    ELSE 64 - (CHOOSE i \in 1..64 : mag[i] = 1 /\ \A j \in (i + 1)..64 : mag[j] = 0)

\* The float mag / 2^frac.
Float(neg, mag, frac) ==
    LET k == IF TrailingZeros(mag) < frac THEN TrailingZeros(mag) ELSE frac
    IN IF \A i \in 1..64 : mag[i] = 0
       THEN [neg |-> FALSE, mag |-> mag, frac |-> 0]
       ELSE [neg |-> neg, mag |-> ShrUnsigned(mag, k), frac |-> frac - k]

\* s as f32 / 2^frac (p = 24) and s as f64 / 2^frac (p = 53) of a signed integer.
IntToFloat(bits, p, frac) ==
    Float(IsNegative(bits), RoundTo(Magnitude(bits), p), frac)

\* (s * 2^scale) as an n-bit signed integer: the product is exact, the cast
\* drops the fraction and saturates.
FloatToInt(f, scale, n) ==
    LET d == scale - f.frac
        shifted == IF d >= 0 THEN Shl(f.mag, d) ELSE ShrUnsigned(f.mag, -d)
        big == \/ d > 0 /\ \E i \in 1..d : f.mag[i] = 1
               \/ ~BelowPow2(shifted, n - 1)
    IN IF f.neg
       THEN IF big THEN Pow2(n, n - 1) ELSE Neg(Low(shifted, n))
       ELSE IF big THEN Ones(n, n - 1) ELSE Low(shifted, n)

\* s as f32 of an f64
FloatToF32(f) == Float(f.neg, RoundTo(f.mag, 24), f.frac)

(***************************************************************************)
(* audio/sample/conv.rs: the conversions! modules of the signed formats    *)
(***************************************************************************)

\* I24::new_unchecked, U24::new_unchecked, I48::new_unchecked,
\* U48::new_unchecked: the value is wrapped as it is.
new_unchecked(v) == v

\* I24::inner, U24::inner, I48::inner, U48::inner
inner(s) == s

\* conversions!(i8, i8 { ... })
i8_to(fmt, s) ==
    CASE fmt = "i16" -> Shl(CastSigned(s, 16), 8)
      [] fmt = "i24" -> new_unchecked(Shl(CastSigned(s, 32), 16))
      [] fmt = "i32" -> Shl(CastSigned(s, 32), 24)
      [] fmt = "i48" -> new_unchecked(Shl(CastSigned(s, 64), 40))
      [] fmt = "i64" -> Shl(CastSigned(s, 64), 56)
      [] fmt = "u8" ->
            IF IsNegative(s)
            THEN CastSigned(Add(Add(s, Ones(8, 7)), Pow2(8, 0)), 8)
            ELSE Add(CastSigned(s, 8), Pow2(8, 7))
      [] fmt = "u16" ->
            IF IsNegative(s)
            THEN Shl(CastSigned(Add(Add(s, Ones(8, 7)), Pow2(8, 0)), 16), 8)
            ELSE Shl(Add(CastSigned(s, 16), Pow2(16, 7)), 8)
      [] fmt = "u24" -> new_unchecked(Shl(Add(CastSigned(s, 32), Pow2(32, 7)), 16))
      [] fmt = "u32" ->
            IF IsNegative(s)
            THEN Shl(CastSigned(Add(Add(s, Ones(8, 7)), Pow2(8, 0)), 32), 24)
            ELSE Shl(Add(CastSigned(s, 32), Pow2(32, 7)), 24)
      [] fmt = "u48" -> new_unchecked(Shl(Add(CastSigned(s, 64), Pow2(64, 7)), 40))
      [] fmt = "u64" ->
            IF IsNegative(s)
            THEN Shl(CastSigned(Add(Add(s, Ones(8, 7)), Pow2(8, 0)), 64), 56)
            ELSE Shl(Add(CastSigned(s, 64), Pow2(64, 7)), 56)
      [] fmt = "f32" -> IntToFloat(s, 24, 7)
      [] fmt = "f64" -> IntToFloat(s, 53, 7)

\* conversions!(i16, i16 { ... })
RECURSIVE i16_to(_, _)
i16_to(fmt, s) ==
    CASE fmt = "i8" -> CastSigned(ShrSigned(s, 8), 8)
      [] fmt = "i24" -> new_unchecked(Shl(CastSigned(s, 32), 8))
      [] fmt = "i32" -> Shl(CastSigned(s, 32), 16)
      [] fmt = "i48" -> new_unchecked(Shl(CastSigned(s, 64), 32))
      [] fmt = "i64" -> Shl(CastSigned(s, 64), 48)
      [] fmt = "u8" -> i8_to("u8", i16_to("i8", s))
      [] fmt = "u16" ->
            IF IsNegative(s)
            THEN CastSigned(Add(Add(s, Ones(16, 15)), Pow2(16, 0)), 16)
            ELSE Add(CastSigned(s, 16), Pow2(16, 15))
      [] fmt = "u24" ->
            IF IsNegative(s)
            THEN new_unchecked(Shl(CastSigned(Add(Add(s, Ones(16, 15)), Pow2(16, 0)), 32), 8))
            ELSE new_unchecked(Shl(Add(CastSigned(s, 32), Pow2(32, 15)), 8))
      [] fmt = "u32" ->
            IF IsNegative(s)
            THEN Shl(CastSigned(Add(Add(s, Ones(16, 15)), Pow2(16, 0)), 32), 16)
            ELSE Shl(Add(CastSigned(s, 32), Pow2(32, 15)), 16)
      [] fmt = "u48" ->
            IF IsNegative(s)
            THEN new_unchecked(Shl(CastSigned(Add(Add(s, Ones(16, 15)), Pow2(16, 0)), 64), 32))
            ELSE new_unchecked(Shl(Add(CastSigned(s, 64), Pow2(64, 15)), 32))
      [] fmt = "u64" ->
            IF IsNegative(s)
            THEN Shl(CastSigned(Add(Add(s, Ones(16, 15)), Pow2(16, 0)), 64), 48)
            ELSE Shl(Add(CastSigned(s, 64), Pow2(64, 15)), 48)
      [] fmt = "f32" -> IntToFloat(s, 24, 15)
      [] fmt = "f64" -> IntToFloat(s, 53, 15)

\* conversions!(I24, i24 { ... })
RECURSIVE i24_to(_, _)
i24_to(fmt, s) ==
    CASE fmt = "i8" -> CastSigned(ShrSigned(inner(s), 16), 8)
      [] fmt = "i16" -> CastSigned(ShrSigned(inner(s), 8), 16)
      [] fmt = "i32" -> Shl(inner(s), 8)
      [] fmt = "i48" -> new_unchecked(Shl(CastSigned(inner(s), 64), 24))
      [] fmt = "i64" -> Shl(CastSigned(inner(s), 64), 40)
      [] fmt = "u8" -> i8_to("u8", i24_to("i8", s))
      [] fmt = "u16" -> i16_to("u16", i24_to("i16", s))
      [] fmt = "u24" -> new_unchecked(Add(inner(s), Pow2(32, 23)))
      [] fmt = "u32" -> Shl(CastSigned(Add(inner(s), Pow2(32, 23)), 32), 8)
      [] fmt = "u48" -> new_unchecked(Shl(Add(CastSigned(inner(s), 64), Pow2(64, 23)), 24))
      [] fmt = "u64" -> Shl(CastSigned(Add(inner(s), Pow2(32, 23)), 64), 40)
      [] fmt = "f32" -> IntToFloat(inner(s), 24, 23)
      [] fmt = "f64" -> IntToFloat(inner(s), 53, 23)

\* conversions!(i32, i32 { ... })
RECURSIVE i32_to(_, _)
i32_to(fmt, s) ==
    CASE fmt = "i8" -> CastSigned(ShrSigned(s, 24), 8)
      [] fmt = "i16" -> CastSigned(ShrSigned(s, 16), 16)
      [] fmt = "i24" -> new_unchecked(ShrSigned(s, 8))
      [] fmt = "i48" -> new_unchecked(Shl(CastSigned(s, 64), 16))
      [] fmt = "i64" -> Shl(CastSigned(s, 64), 32)
      [] fmt = "u8" -> i8_to("u8", i32_to("i8", s))
      [] fmt = "u16" -> i16_to("u16", i32_to("i16", s))
      [] fmt = "u24" -> i24_to("u24", i32_to("i24", s))
      [] fmt = "u32" ->
            IF IsNegative(s)
            THEN CastSigned(Add(Add(s, Ones(32, 31)), Pow2(32, 0)), 32)
            ELSE Add(CastSigned(s, 32), Pow2(32, 31))
      [] fmt = "u48" -> new_unchecked(Shl(Add(CastSigned(s, 64), Pow2(64, 31)), 16))
      [] fmt = "u64" ->
            IF IsNegative(s)
            THEN Shl(CastSigned(Add(Add(s, Ones(32, 31)), Pow2(32, 0)), 64), 32)
            ELSE Shl(Add(CastSigned(s, 64), Pow2(64, 31)), 32)
      [] fmt = "f32" -> IntToFloat(s, 24, 31)
      [] fmt = "f64" -> IntToFloat(s, 53, 31)

\* conversions!(I48, i48 { ... })
RECURSIVE i48_to(_, _)
i48_to(fmt, s) ==
    CASE fmt = "i8" -> CastSigned(ShrSigned(inner(s), 40), 8)
      [] fmt = "i16" -> CastSigned(ShrSigned(inner(s), 32), 16)
      [] fmt = "i24" -> new_unchecked(CastSigned(ShrSigned(inner(s), 24), 32))
      [] fmt = "i32" -> CastSigned(ShrSigned(inner(s), 16), 32)
      [] fmt = "i64" -> Shl(inner(s), 16)
      [] fmt = "u8" -> i8_to("u8", i48_to("i8", s))
      [] fmt = "u16" -> i16_to("u16", i48_to("i16", s))
      [] fmt = "u24" -> i24_to("u24", i48_to("i24", s))
      [] fmt = "u32" -> i32_to("u32", i48_to("i32", s))
      [] fmt = "u48" -> new_unchecked(Add(inner(s), Pow2(64, 47)))
      [] fmt = "u64" -> Shl(CastSigned(Add(inner(s), Pow2(64, 47)), 64), 16)
      [] fmt = "f32" -> IntToFloat(inner(s), 24, 47)
      [] fmt = "f64" -> IntToFloat(inner(s), 53, 47)

\* conversions!(i64, i64 { ... })
RECURSIVE i64_to(_, _)
i64_to(fmt, s) ==
    CASE fmt = "i8" -> CastSigned(ShrSigned(s, 56), 8)
      [] fmt = "i16" -> CastSigned(ShrSigned(s, 48), 16)
      [] fmt = "i24" -> new_unchecked(CastSigned(ShrSigned(s, 40), 32))
      [] fmt = "i32" -> CastSigned(ShrSigned(s, 32), 32)
      [] fmt = "i48" -> new_unchecked(ShrSigned(s, 16))
      [] fmt = "u8" -> i8_to("u8", i64_to("i8", s))
      [] fmt = "u16" -> i16_to("u16", i64_to("i16", s))
      [] fmt = "u24" -> i24_to("u24", i64_to("i24", s))
      [] fmt = "u32" -> i32_to("u32", i64_to("i32", s))
      [] fmt = "u48" -> i48_to("u48", i64_to("i48", s))
      [] fmt = "u64" ->
            IF IsNegative(s)
            THEN CastSigned(Add(Add(s, Ones(64, 63)), Pow2(64, 0)), 64)
            ELSE Add(CastSigned(s, 64), Pow2(64, 63))
      [] fmt = "f32" -> IntToFloat(s, 24, 63)
      [] fmt = "f64" -> IntToFloat(s, 53, 63)

(***************************************************************************)
(* audio/sample/conv.rs: the conversions! modules of the unsigned formats  *)
(* and of the floats                                                       *)
(***************************************************************************)
\* conversions!(u8, u8 { ... })
RECURSIVE u8_to(_, _)
u8_to(fmt, s) ==
    CASE fmt = "i8" ->
            IF BelowPow2(s, 7)
            THEN Sub(Sub(CastUnsigned(s, 8), Ones(8, 7)), Pow2(8, 0))
            ELSE CastUnsigned(Sub(s, Pow2(8, 7)), 8)
      [] fmt = "i16" -> Shl(Sub(CastUnsigned(s, 16), Pow2(16, 7)), 8)
      [] fmt = "i24" -> new_unchecked(Shl(Sub(CastUnsigned(s, 32), Pow2(32, 7)), 16))
      [] fmt = "i32" -> Shl(Sub(CastUnsigned(s, 32), Pow2(32, 7)), 24)
      [] fmt = "i48" -> new_unchecked(Shl(Sub(CastUnsigned(s, 64), Pow2(64, 7)), 40))
      [] fmt = "i64" -> Shl(Sub(CastUnsigned(s, 64), Pow2(64, 7)), 56)
      [] fmt = "u16" -> Shl(CastUnsigned(s, 16), 8)
      [] fmt = "u24" -> new_unchecked(Shl(CastUnsigned(s, 32), 16))
      [] fmt = "u32" -> Shl(CastUnsigned(s, 32), 24)
      [] fmt = "u48" -> new_unchecked(Shl(CastUnsigned(s, 64), 40))
      [] fmt = "u64" -> Shl(CastUnsigned(s, 64), 56)
      [] fmt = "f32" -> i8_to("f32", u8_to("i8", s))
      [] fmt = "f64" -> i8_to("f64", u8_to("i8", s))

\* conversions!(u16, u16 { ... })
RECURSIVE u16_to(_, _)
u16_to(fmt, s) ==
    CASE fmt = "i8" -> u8_to("i8", u16_to("u8", s))
      [] fmt = "i16" ->
            IF BelowPow2(s, 15)
            THEN Sub(Sub(CastUnsigned(s, 16), Ones(16, 15)), Pow2(16, 0))
            ELSE CastUnsigned(Sub(s, Pow2(16, 15)), 16)
      [] fmt = "i24" -> new_unchecked(Shl(Sub(CastUnsigned(s, 32), Pow2(32, 15)), 8))
      [] fmt = "i32" -> Shl(Sub(CastUnsigned(s, 32), Pow2(32, 15)), 16)
      [] fmt = "i48" -> new_unchecked(Shl(Sub(CastUnsigned(s, 64), Pow2(64, 15)), 32))
      [] fmt = "i64" -> Shl(Sub(CastUnsigned(s, 64), Pow2(64, 15)), 48)
      [] fmt = "u8" -> CastUnsigned(ShrUnsigned(s, 8), 8)
      [] fmt = "u24" -> new_unchecked(Shl(CastUnsigned(s, 32), 8))
      [] fmt = "u32" -> Shl(CastUnsigned(s, 32), 16)
      [] fmt = "u48" -> new_unchecked(Shl(CastUnsigned(s, 64), 32))
      [] fmt = "u64" -> Shl(CastUnsigned(s, 64), 48)
      [] fmt = "f32" -> i16_to("f32", u16_to("i16", s))
      [] fmt = "f64" -> i16_to("f64", u16_to("i16", s))

\* conversions!(U24, u24 { ... })
RECURSIVE u24_to(_, _)
u24_to(fmt, s) ==
    CASE fmt = "i8" -> u8_to("i8", u24_to("u8", s))
      [] fmt = "i16" -> u16_to("i16", u24_to("u16", s))
      [] fmt = "i24" -> new_unchecked(Sub(inner(s), Pow2(32, 23)))
      [] fmt = "i32" -> Shl(Sub(inner(s), Pow2(32, 23)), 8)
      [] fmt = "i48" -> new_unchecked(Shl(Sub(CastSigned(inner(s), 64), Pow2(64, 23)), 24))
      [] fmt = "i64" -> Shl(Sub(CastSigned(inner(s), 64), Pow2(64, 23)), 40)
      [] fmt = "u8" -> CastSigned(ShrSigned(inner(s), 16), 8)
      [] fmt = "u16" -> CastSigned(ShrSigned(inner(s), 8), 16)
      [] fmt = "u32" -> Shl(CastSigned(inner(s), 32), 8)
      [] fmt = "u48" -> new_unchecked(Shl(CastSigned(inner(s), 64), 24))
      [] fmt = "u64" -> Shl(CastSigned(inner(s), 64), 40)
      [] fmt = "f32" -> i24_to("f32", u24_to("i24", s))
      [] fmt = "f64" -> i24_to("f64", u24_to("i24", s))

\* conversions!(u32, u32 { ... })
RECURSIVE u32_to(_, _)
u32_to(fmt, s) ==
    CASE fmt = "i8" -> u8_to("i8", u32_to("u8", s))
      [] fmt = "i16" -> u16_to("i16", u32_to("u16", s))
      [] fmt = "i24" -> u24_to("i24", u32_to("u24", s))
      [] fmt = "i32" ->
            IF BelowPow2(s, 31)
            THEN Sub(Sub(CastUnsigned(s, 32), Ones(32, 31)), Pow2(32, 0))
            ELSE CastUnsigned(Sub(s, Pow2(32, 31)), 32)
      [] fmt = "i48" -> new_unchecked(Shl(Sub(CastUnsigned(s, 64), Pow2(64, 31)), 16))
      [] fmt = "i64" -> Shl(Sub(CastUnsigned(s, 64), Pow2(64, 31)), 32)
      [] fmt = "u8" -> CastUnsigned(ShrUnsigned(s, 24), 8)
      [] fmt = "u16" -> CastUnsigned(ShrUnsigned(s, 16), 16)
      [] fmt = "u24" -> new_unchecked(CastUnsigned(ShrUnsigned(s, 8), 32))
      [] fmt = "u48" -> new_unchecked(Shl(CastUnsigned(s, 64), 16))
      [] fmt = "u64" -> Shl(CastUnsigned(s, 64), 32)
      [] fmt = "f32" -> i32_to("f32", u32_to("i32", s))
      [] fmt = "f64" -> i32_to("f64", u32_to("i32", s))

\* conversions!(U48, u48 { ... })
RECURSIVE u48_to(_, _)
u48_to(fmt, s) ==
    CASE fmt = "i8" -> u8_to("i8", u48_to("u8", s))
      [] fmt = "i16" -> u16_to("i16", u48_to("u16", s))
      [] fmt = "i24" -> u24_to("i24", u48_to("u24", s))
      [] fmt = "i32" -> u32_to("i32", u48_to("u32", s))
      [] fmt = "i48" -> new_unchecked(Sub(inner(s), Pow2(64, 47)))
      [] fmt = "i64" -> Shl(Sub(inner(s), Pow2(64, 47)), 16)
      [] fmt = "u8" -> CastSigned(ShrSigned(inner(s), 40), 8)
      [] fmt = "u16" -> CastSigned(ShrSigned(inner(s), 32), 16)
      [] fmt = "u24" -> new_unchecked(CastSigned(ShrSigned(inner(s), 24), 32))
      [] fmt = "u32" -> CastSigned(ShrSigned(inner(s), 16), 32)
      [] fmt = "u64" -> Shl(CastSigned(inner(s), 64), 16)
      [] fmt = "f32" -> i48_to("f32", u48_to("i48", s))
      [] fmt = "f64" -> i48_to("f64", u48_to("i48", s))

\* conversions!(u64, u64 { ... })
RECURSIVE u64_to(_, _)
u64_to(fmt, s) ==
    CASE fmt = "i8" -> u8_to("i8", u64_to("u8", s))
      [] fmt = "i16" -> u16_to("i16", u64_to("u16", s))
      [] fmt = "i24" -> u24_to("i24", u64_to("u24", s))
      [] fmt = "i32" -> u32_to("i32", u64_to("u32", s))
      [] fmt = "i48" -> u48_to("i48", u64_to("u48", s))
      [] fmt = "i64" ->
            IF BelowPow2(s, 63)
            THEN Sub(Sub(CastUnsigned(s, 64), Ones(64, 63)), Pow2(64, 0))
            ELSE CastUnsigned(Sub(s, Pow2(64, 63)), 64)
      [] fmt = "u8" -> CastUnsigned(ShrUnsigned(s, 56), 8)
      [] fmt = "u16" -> CastUnsigned(ShrUnsigned(s, 48), 16)
      [] fmt = "u24" -> new_unchecked(CastUnsigned(ShrUnsigned(s, 40), 32))
      [] fmt = "u32" -> CastUnsigned(ShrUnsigned(s, 32), 32)
      [] fmt = "u48" -> new_unchecked(CastUnsigned(ShrUnsigned(s, 16), 64))
      [] fmt = "f32" -> i64_to("f32", u64_to("i64", s))
      [] fmt = "f64" -> i64_to("f64", u64_to("i64", s))

\* conversions!(f32, f32 { ... })
RECURSIVE f32_to(_, _)
f32_to(fmt, s) ==
    CASE fmt = "i8" -> FloatToInt(s, 7, 8)
      [] fmt = "i16" -> FloatToInt(s, 15, 16)
      [] fmt = "i24" -> new_unchecked(FloatToInt(s, 23, 32))
      [] fmt = "i32" -> FloatToInt(s, 31, 32)
      [] fmt = "i48" -> new_unchecked(FloatToInt(s, 47, 64))
      [] fmt = "i64" -> FloatToInt(s, 63, 64)
      [] fmt = "u8" -> i8_to("u8", f32_to("i8", s))
      [] fmt = "u16" -> i16_to("u16", f32_to("i16", s))
      [] fmt = "u24" -> i24_to("u24", f32_to("i24", s))
      [] fmt = "u32" -> i32_to("u32", f32_to("i32", s))
      [] fmt = "u48" -> i48_to("u48", f32_to("i48", s))
      [] fmt = "u64" -> i64_to("u64", f32_to("i64", s))
      [] fmt = "f64" -> s

\* conversions!(f64, f64 { ... })
RECURSIVE f64_to(_, _)
f64_to(fmt, s) ==
    CASE fmt = "i8" -> FloatToInt(s, 7, 8)
      [] fmt = "i16" -> FloatToInt(s, 15, 16)
      [] fmt = "i24" -> new_unchecked(FloatToInt(s, 23, 32))
      [] fmt = "i32" -> FloatToInt(s, 31, 32)
      [] fmt = "i48" -> new_unchecked(FloatToInt(s, 47, 64))
      [] fmt = "i64" -> FloatToInt(s, 63, 64)
      [] fmt = "u8" -> i8_to("u8", f64_to("i8", s))
      [] fmt = "u16" -> i16_to("u16", f64_to("i16", s))
      [] fmt = "u24" -> i24_to("u24", f64_to("i24", s))
      [] fmt = "u32" -> i32_to("u32", f64_to("i32", s))
      [] fmt = "u48" -> i48_to("u48", f64_to("i48", s))
      [] fmt = "u64" -> i64_to("u64", f64_to("i64", s))
      [] fmt = "f32" -> FloatToF32(s)

\* FromSample::from_sample_: a format converts to itself unchanged and to
\* another format by the to_<format> function of its module.
from_sample_(from, to, s) ==
    CASE from = to -> s
      [] from # to /\ from = "i8" -> i8_to(to, s)
      [] from # to /\ from = "i16" -> i16_to(to, s)
      [] from # to /\ from = "i24" -> i24_to(to, s)
      [] from # to /\ from = "i32" -> i32_to(to, s)
      [] from # to /\ from = "i48" -> i48_to(to, s)
      [] from # to /\ from = "i64" -> i64_to(to, s)
      [] from # to /\ from = "u8" -> u8_to(to, s)
      [] from # to /\ from = "u16" -> u16_to(to, s)
      [] from # to /\ from = "u24" -> u24_to(to, s)
      [] from # to /\ from = "u32" -> u32_to(to, s)
      [] from # to /\ from = "u48" -> u48_to(to, s)
      [] from # to /\ from = "u64" -> u64_to(to, s)
      [] from # to /\ from = "f32" -> f32_to(to, s)
      [] from # to /\ from = "f64" -> f64_to(to, s)

(***************************************************************************)
(* crates/engine/src/music/octave.rs: Octave                               *)
(*                                                                         *)
(* An Octave is the name of its variant. An operator returns               *)
(* [panic, value]: value is the Octave returned, or "None" after a panic.  *)
(* i8 arithmetic panics on overflow in a build with overflow checks and    *)
(* wraps in a build without them.                                          *)
(***************************************************************************)

\* pub static ALL_OCTAVES
ALL_OCTAVES ==
    <<"Zero", "One", "Two", "Three", "Four", "Five", "Six", "Seven", "Eight",
      "Nine", "Ten", "Eleven", "Twelve", "Thirteen", "Fourteen", "Fifteen">>

\* The values of the type i8.
I8 == -128..127

\* self as u8: the discriminant of a variant.
as_u8(self) == CHOOSE n \in 0..15 : ALL_OCTAVES[n + 1] = self

\* mem::transmute of a number to an Octave: the variant of that discriminant;
\* of any other number it is undefined behaviour, whose every outcome is an
\* Octave that is none of the sixteen variants, held as "Invalid".
transmute(n) == IF n \in 0..15 THEN ALL_OCTAVES[n + 1] ELSE "Invalid"

\* A panic, and a value returned.
Panic == [panic |-> TRUE, value |-> "None"]
Returned(value) == [panic |-> FALSE, value |-> value]

\* impl Add for Octave
Octave_add(self, rhs) ==
    LET new_octave == (as_u8(self) + as_u8(rhs)) % 256
    IN  IF new_octave <= 15 THEN Returned(transmute(new_octave)) ELSE Panic

\* impl Sub for Octave
Octave_sub(self, rhs) ==
    IF as_u8(self) < as_u8(rhs)
    THEN Panic
    ELSE LET new_octave == as_u8(self) - as_u8(rhs)
         IN  IF new_octave <= 15 THEN Returned(transmute(new_octave)) ELSE Panic

\* impl TryFrom<u8> for Octave: [ok, value]
Octave_try_from(value) ==
    IF value > 15
    THEN [ok |-> FALSE, value |-> "Octave overflow."]
    ELSE [ok |-> TRUE, value |-> transmute(value)]

\* An i8 operation whose result would be n panics: n is no i8 and the build
\* has overflow checks.
OverflowPanics(n, overflow_checks) == n \notin I8 /\ overflow_checks

\* The i8 that n wraps to.
WrapI8(n) == ((n + 128) % 256) - 128

\* impl Add<i8> for Octave (faulty variant: no test for underflow).
Octave_add_i8_nounder(self, rhs, overflow_checks) ==
    LET new_octave == WrapI8(as_u8(self) + rhs)
    IN  IF OverflowPanics(as_u8(self) + rhs, overflow_checks) THEN Panic
        ELSE IF new_octave > 15 THEN Panic
        ELSE Returned(transmute(new_octave))

\* impl Add<i8> for Octave
Octave_add_i8(self, rhs, overflow_checks) ==
    LET new_octave == WrapI8(as_u8(self) + rhs)
    IN  IF OverflowPanics(as_u8(self) + rhs, overflow_checks) THEN Panic
        ELSE IF new_octave > 15 THEN Panic
        ELSE IF new_octave < 0 THEN Panic
        ELSE Returned(transmute(new_octave))

\* impl Sub<i8> for Octave: self + (-rhs)
Octave_sub_i8(self, rhs, overflow_checks) ==
    IF OverflowPanics(0 - rhs, overflow_checks)
    THEN Panic
    ELSE Octave_add_i8(self, WrapI8(0 - rhs), overflow_checks)

(***************************************************************************)
(* crates/catalina-engine/src/music: Pitch and Note                        *)
(*                                                                         *)
(* A Note is a record of its named pitch and its octave; a frequency is a  *)
(* number of Hz times HzScale.                                             *)
(***************************************************************************)

\* Pitch::base_frequency
Pitch_base_frequency(self) ==
    CASE self = "C" -> (1635 * HzScale) \div 100
      [] self = "DFlat" -> (1732 * HzScale) \div 100
      [] self = "D" -> (1835 * HzScale) \div 100
      [] self = "EFlat" -> (1945 * HzScale) \div 100
      [] self = "E" -> (2060 * HzScale) \div 100
      [] self = "F" -> (2183 * HzScale) \div 100
      [] self = "GFlat" -> (2312 * HzScale) \div 100
      [] self = "G" -> (2450 * HzScale) \div 100
      [] self = "AFlat" -> (2596 * HzScale) \div 100
      [] self = "A" -> (2750 * HzScale) \div 100
      [] self = "BFlat" -> (2914 * HzScale) \div 100
      [] self = "B" -> (3087 * HzScale) \div 100

\* NamedPitch::pitch, of the natural names and of B sharp and C flat.
NamedPitch_pitch(self) ==
    CASE self = "BSharp" -> "C"
      [] self = "CFlat" -> "B"
      [] OTHER -> self

\* Note::frequency: octave += 1 and octave -= 1 are Octave's AddAssign<i8> and
\* SubAssign<i8>.
Note_frequency(self) ==
    LET shifted ==
            CASE self.named_pitch \in {"ATripleSharp", "BTripleSharp", "BDoubleSharp", "BSharp"}
                    -> Octave_add_i8(self.octave, 1, TRUE).value
              [] self.named_pitch \in {"DTripleFlat", "CTripleFlat", "CDoubleFlat", "CFlat"}
                    -> Octave_sub_i8(self.octave, 1, TRUE).value
              [] OTHER -> self.octave
    IN  Pitch_base_frequency(NamedPitch_pitch(self.named_pitch)) * 2 ^ as_u8(shifted)

\* pub const CFour
CFour == [named_pitch |-> "C", octave |-> "Four"]

(***************************************************************************)
(* crates/catalina-instruments/src/synths/additive: AdditiveSynth          *)
(*                                                                         *)
(* The voices map is a function from the sounding notes to their voices:   *)
(* the order of its entries only sets the order in which next visits the   *)
(* voices, which are updated one by one and summed. A phase is the integer *)
(* phase * PhaseDen(sample_rate), a frame the integer frame * sample_rate. *)
(***************************************************************************)

\* The capacity of the voices map: FnvIndexMap<Note, Voice, 8>
VoiceCapacity == 8

\* AdditiveOscillator::new
AdditiveOscillator_new(enabled, base_frequency) ==
    [enabled |-> enabled, base_frequency |-> base_frequency,
     fixed_frequency |-> FALSE, level |-> FxOne]

\* AdditiveOscillator::note_frequency
note_frequency(self, note) ==
    IF self.fixed_frequency
    THEN self.base_frequency
    ELSE LET note_freq == Note_frequency(note)
             offset_freq == self.base_frequency - note_freq
         IN  self.base_frequency + offset_freq

\* AdditiveOscillator::sample: sine(phase) * self.level
AdditiveOscillator_sample(self, phase, sample_rate) ==
    FxMul(SinCycles(phase \div HzScale, sample_rate), self.level)

\* Voice::new
Voice_new == [phase_0 |-> 0, phase_1 |-> 0, phase_2 |-> 0, phase_3 |-> 0]

\* AdditiveSynth::new
AdditiveSynth_new(sample_rate) ==
    [sample_rate |-> sample_rate,
     oscillators |-> <<AdditiveOscillator_new(TRUE, Note_frequency(CFour)),
                       AdditiveOscillator_new(FALSE, Note_frequency(CFour)),
                       AdditiveOscillator_new(FALSE, Note_frequency(CFour)),
                       AdditiveOscillator_new(FALSE, Note_frequency(CFour))>>,
     voices |-> <<>>]

\* FnvIndexMap::insert (the faulty variant: a full map refuses every key).
insert_strict(map, key, value) ==
    IF Cardinality(DOMAIN map) >= VoiceCapacity
    THEN [map |-> map, ok |-> FALSE]
    ELSE [map |-> [k \in DOMAIN map \cup {key} |-> IF k = key THEN value ELSE map[k]],
          ok |-> TRUE]

\* FnvIndexMap::insert: the value of a key already in the map is replaced; a
\* new key is refused by a full map.
insert(map, key, value) ==
    IF key \in DOMAIN map
    THEN [map |-> [map EXCEPT ![key] = value], ok |-> TRUE]
    ELSE IF Cardinality(DOMAIN map) >= VoiceCapacity
    THEN [map |-> map, ok |-> FALSE]
    ELSE [map |-> [k \in DOMAIN map \cup {key} |-> IF k = key THEN value ELSE map[k]],
          ok |-> TRUE]

\* FnvIndexMap::remove (the faulty variant: the map is emptied).
remove_all(map, key) ==
    IF key \in DOMAIN map THEN <<>> ELSE map

\* FnvIndexMap::remove
remove(map, key) == [k \in DOMAIN map \ {key} |-> map[k]]

\* AdditiveSynth::note_on: the synth afterwards and the result.
note_on(self, note, velocity) ==
    LET inserted == insert(self.voices, note, Voice_new)
    IN  [self |-> [self EXCEPT !.voices = inserted.map],
         result |-> IF inserted.ok THEN "Ok" ELSE "NoVoices"]

\* AdditiveSynth::note_off
note_off(self, note) == [self EXCEPT !.voices = remove(self.voices, note)]

\* One of the four blocks of next: the voice's phase for oscillator osc after
\* the frame.
AdvancePhase(self, osc, note, phase) ==
    LET advanced == phase + note_frequency(osc, note)
    IN  IF ~osc.enabled THEN phase
        ELSE IF advanced >= PhaseDen(self.sample_rate) THEN 0
        ELSE advanced

\* voice_sample for one voice: the enabled oscillators' samples summed.
VoiceSample(self, voice) ==
    (IF self.oscillators[1].enabled
     THEN AdditiveOscillator_sample(self.oscillators[1], voice.phase_0, self.sample_rate)
     ELSE 0)
    + (IF self.oscillators[2].enabled
       THEN AdditiveOscillator_sample(self.oscillators[2], voice.phase_1, self.sample_rate)
       ELSE 0)
    + (IF self.oscillators[3].enabled
       THEN AdditiveOscillator_sample(self.oscillators[3], voice.phase_2, self.sample_rate)
       ELSE 0)
    + (IF self.oscillators[4].enabled
       THEN AdditiveOscillator_sample(self.oscillators[4], voice.phase_3, self.sample_rate)
       ELSE 0)

\* The voice samples of the notes summed.
RECURSIVE SumVoices(_, _)
SumVoices(self, notes) ==
    IF notes = {} THEN 0
    ELSE LET note == CHOOSE n \in notes : TRUE
         IN  VoiceSample(self, self.voices[note]) + SumVoices(self, notes \ {note})

\* AdditiveSynth::next: the synth afterwards and the frame.
AdditiveSynth_next(self) ==
    [self |-> [self EXCEPT !.voices =
                  [note \in DOMAIN self.voices |->
                      [phase_0 |-> AdvancePhase(self, self.oscillators[1], note,
                                                self.voices[note].phase_0),
                       phase_1 |-> AdvancePhase(self, self.oscillators[2], note,
                                                self.voices[note].phase_1),
                       phase_2 |-> AdvancePhase(self, self.oscillators[3], note,
                                                self.voices[note].phase_2),
                       phase_3 |-> AdvancePhase(self, self.oscillators[4], note,
                                                self.voices[note].phase_3)]]],
     sample |-> SumVoices(self, DOMAIN self.voices)]

(***************************************************************************)
(* crates/engine/src/sequence/mod.rs: Project                              *)
(*                                                                         *)
(* A slot of the patterns vector is a record whose field some tells        *)
(* whether it holds a pattern.                                             *)
(***************************************************************************)

\* Project::new, for the const generic PATTERNS.
Project_new(PATTERNS) == [PATTERNS |-> PATTERNS, patterns |-> <<>>]

\* Project::get_pattern (the variant that tests index >= len).
get_pattern_checked(self, index) ==
    IF index >= Len(self.patterns) THEN Returned("None")
    ELSE IF ~self.patterns[index + 1].some THEN Returned("None")
    ELSE Returned("Some")

\* Project::get_pattern: indexing the vector at or past its length panics.
get_pattern(self, index) ==
    IF index > Len(self.patterns) THEN Returned("None")
    ELSE IF index >= Len(self.patterns) THEN Panic
    ELSE IF ~self.patterns[index + 1].some THEN Returned("None")
    ELSE Returned("Some")

\* Project::get_pattern_mut
get_pattern_mut(self, index) ==
    IF index > Len(self.patterns) THEN Returned("None")
    ELSE IF index >= Len(self.patterns) THEN Panic
    ELSE IF ~self.patterns[index + 1].some THEN Returned("None")
    ELSE Returned("Some")

(***************************************************************************)
(* The envelope driven by a caller: any setter with any argument of the    *)
(* choice sets, and process with either gate value, in any order.          *)
(***************************************************************************)

\* Stage times a caller passes (seconds): -1.0, 0.0 and 0.1.
TimeChoices == {-FxOne, 0, FxOne \div 10}
\* Attack shapes a caller passes: the ends of [0, 1].
ShapeChoices == {0, FxOne}
\* Sustain levels a caller passes: 0, 0.5 and 2.0.
LevelChoices == {0, FxOne \div 2, 2 * FxOne}

\* The record of a setter call. gate is the argument of the latest process call
\* and prev_gate the argument of the process call before it (FALSE when there was
\* none); a setter call keeps the latest gate and blanks the rest.
SetterCall(op) ==
    [op |-> op, gate |-> env_call.gate, prev_gate |-> env_call.gate, out |-> 0]

\* No call was made on the envelope yet.
NoEnvCall == [op |-> "new", gate |-> FALSE, prev_gate |-> FALSE, out |-> 0]

SetAttackTime ==
    \E seconds \in TimeChoices, shape \in ShapeChoices :
        /\ adsr' = set_attack_time(adsr, seconds, shape)
        /\ env_call' = SetterCall("set_attack_time")
        /\ UNCHANGED not_env

SetDecayTime ==
    \E seconds \in TimeChoices :
        /\ adsr' = set_decay_time(adsr, seconds)
        /\ env_call' = SetterCall("set_decay_time")
        /\ UNCHANGED not_env

SetReleaseTime ==
    \E seconds \in TimeChoices :
        /\ adsr' = set_release_time(adsr, seconds)
        /\ env_call' = SetterCall("set_release_time")
        /\ UNCHANGED not_env

SetSustainLevel ==
    \E level \in LevelChoices :
        /\ adsr' = set_sustain_level(adsr, level)
        /\ env_call' = SetterCall("set_sustain_level")
        /\ UNCHANGED not_env

Process ==
    \E g \in BOOLEAN :
        LET r == process(adsr, g)
        IN /\ adsr' = r.self
           /\ env_call' = [op |-> "process", gate |-> g, prev_gate |-> env_call.gate,
                           out |-> r.out]
           /\ UNCHANGED not_env

EnvNext ==
    \/ SetAttackTime
    \/ SetDecayTime
    \/ SetReleaseTime
    \/ SetSustainLevel
    \/ Process

(***************************************************************************)
(* The allocator driven by a caller: lookup_or_allocate with any key of    *)
(* the choice sets, in any order.                                          *)
(***************************************************************************)

OscChoices == {"Sine", "Saw", "Triangle", "Square"}
DutyChoices == {"Quarter", "Half"}
\* 1 Hz, 1.00006 Hz and 1.00012 Hz: neighbours are equal as Hertz, the ends are not.
FreqChoices == {HzScale, HzScale + (3 * HertzEps) \div 5, HzScale + (6 * HertzEps) \div 5}

\* The keys a caller asks for: every waveform at 1 Hz with both duty cycles, and
\* the sine and the saw at the three neighbouring frequencies.
AllocKeys ==
    {[osc |-> o, frequency |-> HzScale, duty_cycle |-> d] :
        o \in OscChoices, d \in DutyChoices}
    \cup {[osc |-> o, frequency |-> f, duty_cycle |-> "Half"] :
        o \in {"Sine", "Saw"}, f \in FreqChoices}

NoKey == [osc |-> "Sine", frequency |-> 0, duty_cycle |-> "Half"]

\* No call was made on the allocator yet.
NoAllocCall ==
    [op |-> "new", key |-> NoKey, before |-> <<>>, result |-> "Ok",
     ret |-> NoTable, entry |-> 0, created |-> 0]

LookupOrAllocate ==
    \E key \in AllocKeys :
        LET r == lookup_or_allocate(lookup, key.osc, key.frequency, key.duty_cycle)
        IN /\ lookup' = r.self
           /\ alloc_call' = [op |-> "lookup_or_allocate", key |-> key,
                             before |-> lookup, result |-> r.result, ret |-> r.ret,
                             entry |-> r.entry, created |-> r.created]
           /\ UNCHANGED not_alloc

(***************************************************************************)
(* build_table called once on a buffer of any length up to MaxBufLen, for  *)
(* any sample rate up to MaxBufLen and any key.                            *)
(***************************************************************************)

\* The longest buffer and the highest sample rate build_table is called with.
MaxBufLen == 4

\* What the buffer holds before the call.
FillChoices == {0, 1}

NoResult == [err |-> "None", expected |-> 0, actual |-> 0]

BtIdle ==
    [called |-> FALSE, osc |-> "Sine", frequency |-> 0, duty_cycle |-> "Half",
     sample_rate |-> 0, buffer |-> <<>>, result |-> NoResult, table |-> <<>>,
     written |-> {}]

\* The frequencies tables are built for: those near 1 Hz, 1.00344 Hz and 2.5 Hz.
TableFreqChoices ==
    FreqChoices \cup {HzScale + HzScale \div 290, (5 * HzScale) \div 2}

\* The build_table calls to be made: any arguments, any buffer.
TableCalls ==
    {[called |-> FALSE, osc |-> osc, frequency |-> frequency,
      duty_cycle |-> duty_cycle, sample_rate |-> sample_rate,
      buffer |-> [i \in 1..len |-> fill], result |-> NoResult,
      table |-> [i \in 1..len |-> fill], written |-> {}] :
        osc \in OscChoices, frequency \in TableFreqChoices,
        duty_cycle \in DutyChoices, sample_rate \in 0..MaxBufLen, len \in 0..MaxBufLen, fill \in FillChoices}

BuildTable ==
    /\ ~bt.called
    /\ LET r == build_table(bt.osc, bt.buffer, bt.sample_rate, bt.frequency,
                            bt.duty_cycle)
       IN bt' = [bt EXCEPT !.called = TRUE, !.result = r.result, !.table = r.table,
                           !.written = r.written]
    /\ UNCHANGED not_table

(***************************************************************************)
(* A runtime oscillator and a lookup oscillator sampled side by side. The  *)
(* table is built by build_table for the runtime oscillator's kind and     *)
(* frequency and for a sample rate equal to its length; the lookup         *)
(* oscillator is given any sample rate.                                    *)
(***************************************************************************)

\* The most sample() calls made on one oscillator.
MaxSamples == 9

NoRuntime == RuntimeOscillator_new("Sine", 0, 0)
NoLookup == new_from_table(0, <<>>)
NoOscCall == [rt_out |-> <<>>, lk_out |-> <<>>, panicked |-> FALSE]

\* The table build_table writes for a configuration with sample rate len.
BuiltTable(osc, len, frequency) ==
    build_table(osc, [i \in 1..len |-> 0], len, frequency, "Half").table

RuntimeSample ==
    /\ ~osc_call.panicked
    /\ Len(osc_call.rt_out) < MaxSamples
    /\ LET r == RuntimeOscillator_sample(rt)
       IN /\ rt' = r.self
          /\ osc_call' = [osc_call EXCEPT !.rt_out = Append(@, r.out)]
    /\ UNCHANGED <<lk, not_osc>>

LookupSample ==
    /\ ~osc_call.panicked
    /\ Len(osc_call.lk_out) < MaxSamples
    /\ LET r == LookupOscillator_sample(lk)
       IN /\ lk' = r.self
          /\ osc_call' = IF r.panic
                         THEN [osc_call EXCEPT !.panicked = TRUE]
                         ELSE [osc_call EXCEPT !.lk_out = Append(@, r.out)]
    /\ UNCHANGED <<rt, not_osc>>

OscNext == RuntimeSample \/ LookupSample

(***************************************************************************)
(* A sample value of any format converted to another format, back, and     *)
(* forth again.                                                            *)
(***************************************************************************)

\* The most conversions made of one sample value.
MaxConversions == 3

IntFormats ==
    {"i8", "i16", "i24", "i32", "i48", "i64", "u8", "u16", "u24", "u32", "u48", "u64"}
FloatFormats == {"f32", "f64"}
Formats == IntFormats \cup FloatFormats

\* Whether an integer format is signed.
Signed(fmt) == fmt \in {"i8", "i16", "i24", "i32", "i48", "i64"}

\* The number of bits of an integer format's values.
Bits(fmt) ==
    CASE fmt \in {"i8", "u8"} -> 8
      [] fmt \in {"i16", "u16"} -> 16
      [] fmt \in {"i24", "u24"} -> 24
      [] fmt \in {"i32", "u32"} -> 32
      [] fmt \in {"i48", "u48"} -> 48
      [] fmt \in {"i64", "u64"} -> 64

\* The number of bits of the type that holds an integer format's values.
RepBits(fmt) ==
    CASE fmt \in {"i24", "u24"} -> 32
      [] fmt \in {"i48", "u48"} -> 64
      [] OTHER -> Bits(fmt)

\* A value of Bits(fmt) bits as the format holds it.
Held(fmt, bits) ==
    IF Signed(fmt) THEN CastSigned(bits, RepBits(fmt)) ELSE CastUnsigned(bits, RepBits(fmt))

\* The high bytes and the lower bits the values to convert are made of.
TopBytes == {0, 1, 64, 127, 128, 129, 192, 255}
LowPatterns(k) ==
    {Fill(k, 0), Fill(k, 1), Pow2(k, 0), Pow2(k, k - 1), Ones(k, k - 1),
     [i \in 1..k |-> i % 2]}

\* The values to convert: every value of the 8-bit formats, the values made
\* of a high byte and a pattern of lower bits of the wider integer formats,
\* and floats in [-1.0, 1.0).
Values(fmt) ==
    IF fmt \in FloatFormats
    THEN {Float(TRUE, NatBits(64, 1), 0)} \cup
         {Float(neg, NatBits(64, m[1]), m[2]) :
             neg \in BOOLEAN,
             m \in {<<0, 0>>, <<1, 1>>, <<3, 2>>, <<127, 7>>, <<8388607, 23>>}}
    ELSE IF Bits(fmt) = 8
    THEN {NatBits(8, v) : v \in 0..255}
    ELSE {Held(fmt, NatBits(8, t) \o low) :
             t \in TopBytes, low \in LowPatterns(Bits(fmt) - 8)}

NoConversion == [trail |-> <<>>]

\* One conversion of the value converted last: to any other format at first,
\* and back to the format before from then on.
Convert ==
    /\ Len(cv.trail) \in 1..MaxConversions
    /\ \E to \in Formats :
          LET last == cv.trail[Len(cv.trail)]
          IN /\ to # last.fmt
             /\ Len(cv.trail) >= 2 => to = cv.trail[Len(cv.trail) - 1].fmt
             /\ cv' = [cv EXCEPT !.trail =
                          Append(@, [fmt |-> to, v |-> from_sample_(last.fmt, to, last.v)])]
    /\ UNCHANGED not_conv

ConvNext == Convert

(***************************************************************************)
(* A VariableShapeOscillator driven by a caller: any setter with any       *)
(* argument of the choice sets, and sample, in any order.                  *)
(***************************************************************************)

\* The sample rate the oscillator is constructed for.
VsoSampleRate == 8

\* The most setter calls and the most sample calls made on the oscillator.
MaxVsoSets == 3
MaxVsoSamples == 7

\* Before any call.
NoVsoCall ==
    [op |-> "new", before |-> VariableShapeOscillator_new(VsoSampleRate), out |-> 0,
     reset |-> FALSE, reset_time |-> 0, edges |-> 0, sets |-> 0, samples |-> 0]

\* The arguments of the setters: 0 Hz, 1.76 Hz and 440 Hz for the master and
\* 0 Hz, 1 Hz and 220 Hz for the slave, pulse widths 0.0, 0.5 and 1.0, and
\* waveshapes 0.25 and 1.0.
VsoFreqChoices == {0, (44 * HzScale) \div 25, 440 * HzScale}
VsoSyncFreqChoices == {0, HzScale, 220 * HzScale}
VsoPwChoices == {0, Half, FxOne}
VsoShapeChoices == {Quarter, FxOne}

\* The record of a setter call.
VsoSet(op) ==
    [op |-> op, before |-> vso, out |-> 0, reset |-> FALSE, reset_time |-> 0,
     edges |-> 0, sets |-> vso_call.sets + 1, samples |-> vso_call.samples]

VsoSetFrequency ==
    /\ vso_call.sets < MaxVsoSets
    /\ \E frequency \in VsoFreqChoices : vso' = Vso_set_frequency(vso, frequency)
    /\ vso_call' = VsoSet("set_frequency")
    /\ UNCHANGED not_vso

VsoSetSyncFrequency ==
    /\ vso_call.sets < MaxVsoSets
    /\ \E frequency \in VsoSyncFreqChoices : vso' = Vso_set_sync_frequency(vso, frequency)
    /\ vso_call' = VsoSet("set_sync_frequency")
    /\ UNCHANGED not_vso

VsoSetPulseWidth ==
    /\ vso_call.sets < MaxVsoSets
    /\ \E pw \in VsoPwChoices : vso' = Vso_set_pulse_width(vso, pw)
    /\ vso_call' = VsoSet("set_pulse_width")
    /\ UNCHANGED not_vso

VsoSetWaveshape ==
    /\ vso_call.sets < MaxVsoSets
    /\ \E waveshape \in VsoShapeChoices : vso' = Vso_set_waveshape(vso, waveshape)
    /\ vso_call' = VsoSet("set_waveshape")
    /\ UNCHANGED not_vso

VsoSetSync ==
    /\ vso_call.sets < MaxVsoSets
    /\ \E sync \in BOOLEAN : vso' = Vso_set_sync(vso, sync)
    /\ vso_call' = VsoSet("set_sync")
    /\ UNCHANGED not_vso

VsoSample ==
    /\ vso_call.samples < MaxVsoSamples
    /\ LET r == VariableShapeOscillator_sample(vso)
       IN  /\ vso' = r.self
           /\ vso_call' = [op |-> "sample", before |-> vso, out |-> r.out,
                           reset |-> r.reset, reset_time |-> r.reset_time,
                           edges |-> r.edges, sets |-> vso_call.sets,
                           samples |-> vso_call.samples + 1]
    /\ UNCHANGED not_vso

VsoNext ==
    \/ VsoSetFrequency
    \/ VsoSetSyncFrequency
    \/ VsoSetPulseWidth
    \/ VsoSetWaveshape
    \/ VsoSetSync
    \/ VsoSample

(***************************************************************************)
(* The slave side of a VariableShapeOscillator retuned by a caller while   *)
(* it runs: set_sync_frequency and set_pulse_width between sample calls.   *)
(***************************************************************************)

\* The most retuning calls and the most sample calls made on the oscillator.
MaxRetunes == 6
MaxRetuneSamples == 6

\* The arguments of the retuning calls: 0 Hz and 1.5 Hz for the slave, and
\* the pulse widths 0.0 and 1.0.
RetuneFreqChoices == {0, (3 * HzScale) \div 2}
RetunePwChoices == {0, FxOne}

RetuneSyncFrequency ==
    /\ vso_call.sets < MaxRetunes
    /\ \E frequency \in RetuneFreqChoices : vso' = Vso_set_sync_frequency(vso, frequency)
    /\ vso_call' = VsoSet("set_sync_frequency")
    /\ UNCHANGED not_vso

RetunePulseWidth ==
    /\ vso_call.sets < MaxRetunes
    /\ \E pw \in RetunePwChoices : vso' = Vso_set_pulse_width(vso, pw)
    /\ vso_call' = VsoSet("set_pulse_width")
    /\ UNCHANGED not_vso

RetuneSample ==
    /\ vso_call.samples < MaxRetuneSamples
    /\ LET r == VariableShapeOscillator_sample(vso)
       IN  /\ vso' = r.self
           /\ vso_call' = [op |-> "sample", before |-> vso, out |-> r.out,
                           reset |-> r.reset, reset_time |-> r.reset_time,
                           edges |-> r.edges, sets |-> vso_call.sets,
                           samples |-> vso_call.samples + 1]
    /\ UNCHANGED not_vso

RetuneNext ==
    \/ RetuneSyncFrequency
    \/ RetunePulseWidth
    \/ RetuneSample

(***************************************************************************)
(* An Octave variable of a caller, used in any of the operators with any   *)
(* operand; a panic ends the program.                                      *)
(***************************************************************************)

\* Before any operation, in a build with or without overflow checks.
NoOctCall(overflow_checks) ==
    [op |-> "none", lhs |-> "Four", rhs |-> 0, panic |-> FALSE, ok |-> TRUE,
     value |-> "None", overflow_checks |-> overflow_checks]

\* The i8 and u8 operands: the small numbers, and those at the ends of the
\* types and where Fifteen plus the operand wraps.
I8Choices == {-128, -127, 112, 113, 127} \cup (-17..17)
U8Choices == (0..17) \cup {127, 128, 255}

\* The record of an operation and of its outcome r; an Octave operand is
\* recorded as its number.
OctCall(op, rhs, r) ==
    [op |-> op, lhs |-> octave, rhs |-> rhs, panic |-> r.panic, ok |-> ~r.panic,
     value |-> r.value, overflow_checks |-> oct_call.overflow_checks]

\* a + b, a - b, a + n and a - n: the result is looked at and dropped.
OctAdd ==
    /\ ~oct_call.panic
    /\ \E rhs \in 1..16 :
          oct_call' = OctCall("add", rhs - 1, Octave_add(octave, ALL_OCTAVES[rhs]))
    /\ UNCHANGED <<octave, not_oct>>

OctSub ==
    /\ ~oct_call.panic
    /\ \E rhs \in 1..16 :
          oct_call' = OctCall("sub", rhs - 1, Octave_sub(octave, ALL_OCTAVES[rhs]))
    /\ UNCHANGED <<octave, not_oct>>

OctAddI8 ==
    /\ ~oct_call.panic
    /\ \E rhs \in I8Choices :
          oct_call' = OctCall("add_i8", rhs,
                              Octave_add_i8(octave, rhs, oct_call.overflow_checks))
    /\ UNCHANGED <<octave, not_oct>>

OctSubI8 ==
    /\ ~oct_call.panic
    /\ \E rhs \in I8Choices :
          oct_call' = OctCall("sub_i8", rhs,
                              Octave_sub_i8(octave, rhs, oct_call.overflow_checks))
    /\ UNCHANGED <<octave, not_oct>>

\* Octave::try_from(value)
OctTryFrom ==
    /\ ~oct_call.panic
    /\ \E value \in U8Choices :
          LET r == Octave_try_from(value)
          IN  oct_call' = [OctCall("try_from", value, Returned(r.value)) EXCEPT !.ok = r.ok]
    /\ UNCHANGED <<octave, not_oct>>

\* impl AddAssign for Octave, impl AddAssign<i8> and impl SubAssign<i8>:
\* *self = *self + rhs, nothing assigned after a panic.
OctAddAssign ==
    /\ ~oct_call.panic
    /\ \E rhs \in 1..16 :
          LET r == Octave_add(octave, ALL_OCTAVES[rhs])
          IN  /\ oct_call' = OctCall("add_assign", rhs - 1, r)
              /\ octave' = IF r.panic THEN octave ELSE r.value
    /\ UNCHANGED not_oct

OctAddAssignI8 ==
    /\ ~oct_call.panic
    /\ \E rhs \in I8Choices :
          LET r == Octave_add_i8(octave, rhs, oct_call.overflow_checks)
          IN  /\ oct_call' = OctCall("add_assign_i8", rhs, r)
              /\ octave' = IF r.panic THEN octave ELSE r.value
    /\ UNCHANGED not_oct

OctSubAssignI8 ==
    /\ ~oct_call.panic
    /\ \E rhs \in I8Choices :
          LET r == Octave_sub_i8(octave, rhs, oct_call.overflow_checks)
          IN  /\ oct_call' = OctCall("sub_assign_i8", rhs, r)
              /\ octave' = IF r.panic THEN octave ELSE r.value
    /\ UNCHANGED not_oct

OctNext ==
    \/ OctAdd
    \/ OctSub
    \/ OctAddI8
    \/ OctSubI8
    \/ OctTryFrom
    \/ OctAddAssign
    \/ OctAddAssignI8
    \/ OctSubAssignI8

(***************************************************************************)
(* An AdditiveSynth played by a caller: note_on and note_off of any note   *)
(* of the choice set, and next, in any order.                              *)
(***************************************************************************)

\* The sample rate the synth is constructed for.
SynthSampleRate == 256

\* The most frames asked of the synth.
MaxFrames == 2

\* The notes played: one more than there are voices. With the default
\* oscillator the notes up to C4 advance the phase by a cycle or more per
\* frame, D4 by 0.9 of a cycle, C5 by nothing, and A5 takes it backwards.
NoteChoices ==
    {[named_pitch |-> p, octave |-> "Three"] : p \in {"C", "D", "E", "F", "G"}}
    \cup {CFour,
          [named_pitch |-> "D", octave |-> "Four"],
          [named_pitch |-> "C", octave |-> "Five"],
          [named_pitch |-> "A", octave |-> "Five"]}

\* The velocity notes are pressed with.
VelocityChoices == {127}

\* Before any call.
NoSynthCall ==
    [op |-> "new", note |-> CFour, result |-> "Ok", sounding |-> FALSE, sample |-> 0,
     frames |-> 0]

NoteOn ==
    /\ \E note \in NoteChoices, velocity \in VelocityChoices :
          LET r == note_on(synth, note, velocity)
          IN  /\ synth' = r.self
              /\ synth_call' = [op |-> "note_on", note |-> note, result |-> r.result,
                                sounding |-> note \in DOMAIN synth.voices,
                                sample |-> 0, frames |-> synth_call.frames]
    /\ UNCHANGED not_synth

NoteOff ==
    /\ \E note \in NoteChoices :
          /\ synth' = note_off(synth, note)
          /\ synth_call' = [op |-> "note_off", note |-> note, result |-> "Ok",
                            sounding |-> note \in DOMAIN synth.voices,
                            sample |-> 0, frames |-> synth_call.frames]
    /\ UNCHANGED not_synth

NextFrame ==
    /\ synth_call.frames < MaxFrames
    /\ LET r == AdditiveSynth_next(synth)
       IN  /\ synth' = r.self
           /\ synth_call' = [op |-> "next", note |-> CFour, result |-> "Ok",
                             sounding |-> FALSE, sample |-> r.sample,
                             frames |-> synth_call.frames + 1]
    /\ UNCHANGED not_synth

SynthNext ==
    \/ NoteOn
    \/ NoteOff
    \/ NextFrame

(***************************************************************************)
(* A Project of any capacity asked for its patterns at any index; a panic  *)
(* ends the program.                                                       *)
(***************************************************************************)

\* The largest const generic PATTERNS and the largest index asked for.
MaxPatterns == 3
MaxIndex == 15

\* Before any call.
NoProjCall == [op |-> "new", index |-> 0, panic |-> FALSE, value |-> "None"]

GetPattern ==
    /\ ~proj_call.panic
    /\ \E index \in 0..MaxIndex :
          LET r == get_pattern(project, index)
          IN  proj_call' = [op |-> "get_pattern", index |-> index, panic |-> r.panic,
                            value |-> r.value]
    /\ UNCHANGED <<project, not_proj>>

GetPatternMut ==
    /\ ~proj_call.panic
    /\ \E index \in 0..MaxIndex :
          LET r == get_pattern_mut(project, index)
          IN  proj_call' = [op |-> "get_pattern_mut", index |-> index, panic |-> r.panic,
                            value |-> r.value]
    /\ UNCHANGED <<project, not_proj>>

ProjNext ==
    \/ GetPattern
    \/ GetPatternMut

(***************************************************************************)
(* Specifications: one per component, the other components idle.           *)
(***************************************************************************)

\* A fresh envelope, an empty allocator and no build_table call.
Init ==
    /\ adsr = Envelope_new(EnvSampleRate)
    /\ env_call = NoEnvCall
    /\ lookup = <<>>
    /\ alloc_call = NoAllocCall
    /\ bt = BtIdle
    /\ rt = NoRuntime
    /\ lk = NoLookup
    /\ osc_call = NoOscCall
    /\ cv = NoConversion
    /\ vso = VariableShapeOscillator_new(VsoSampleRate)
    /\ vso_call = NoVsoCall
    /\ octave = "Four"
    /\ oct_call = NoOctCall(TRUE)
    /\ synth = AdditiveSynth_new(SynthSampleRate)
    /\ synth_call = NoSynthCall
    /\ project = Project_new(1)
    /\ proj_call = NoProjCall

\* As Init, with a build_table call to be made.
TableInit ==
    /\ adsr = Envelope_new(EnvSampleRate)
    /\ env_call = NoEnvCall
    /\ lookup = <<>>
    /\ alloc_call = NoAllocCall
    /\ bt \in TableCalls
    /\ rt = NoRuntime
    /\ lk = NoLookup
    /\ osc_call = NoOscCall
    /\ cv = NoConversion
    /\ vso = VariableShapeOscillator_new(VsoSampleRate)
    /\ vso_call = NoVsoCall
    /\ octave = "Four"
    /\ oct_call = NoOctCall(TRUE)
    /\ synth = AdditiveSynth_new(SynthSampleRate)
    /\ synth_call = NoSynthCall
    /\ project = Project_new(1)
    /\ proj_call = NoProjCall

EnvSpec == Init /\ [][EnvNext]_vars

AllocNext == LookupOrAllocate

AllocSpec == Init /\ [][AllocNext]_vars

TableNext == BuildTable

TableSpec == TableInit /\ [][TableNext]_vars

\* As Init, with the two oscillators constructed.
OscInit ==
    /\ adsr = Envelope_new(EnvSampleRate)
    /\ env_call = NoEnvCall
    /\ lookup = <<>>
    /\ alloc_call = NoAllocCall
    /\ bt = BtIdle
    /\ \E osc \in OscChoices, frequency \in TableFreqChoices,
          sample_rate \in 1..SAMPLE_RATE, len \in 0..MaxBufLen :
          /\ rt = RuntimeOscillator_new(osc, sample_rate, frequency)
          /\ lk = new_from_table(sample_rate, BuiltTable(osc, len, frequency))
    /\ osc_call = NoOscCall
    /\ cv = NoConversion
    /\ vso = VariableShapeOscillator_new(VsoSampleRate)
    /\ vso_call = NoVsoCall
    /\ octave = "Four"
    /\ oct_call = NoOctCall(TRUE)
    /\ synth = AdditiveSynth_new(SynthSampleRate)
    /\ synth_call = NoSynthCall
    /\ project = Project_new(1)
    /\ proj_call = NoProjCall

OscSpec == OscInit /\ [][OscNext]_vars

\* As Init, with a sample value to convert.
ConvInit ==
    /\ adsr = Envelope_new(EnvSampleRate)
    /\ env_call = NoEnvCall
    /\ lookup = <<>>
    /\ alloc_call = NoAllocCall
    /\ bt = BtIdle
    /\ rt = NoRuntime
    /\ lk = NoLookup
    /\ osc_call = NoOscCall
    /\ \E fmt \in Formats :
          \E v \in Values(fmt) : cv = [trail |-> <<[fmt |-> fmt, v |-> v]>>]
    /\ vso = VariableShapeOscillator_new(VsoSampleRate)
    /\ vso_call = NoVsoCall
    /\ octave = "Four"
    /\ oct_call = NoOctCall(TRUE)
    /\ synth = AdditiveSynth_new(SynthSampleRate)
    /\ synth_call = NoSynthCall
    /\ project = Project_new(1)
    /\ proj_call = NoProjCall

ConvSpec == ConvInit /\ [][ConvNext]_vars

\* As Init: the oscillator as VariableShapeOscillator::new leaves it.
VsoInit ==
    /\ adsr = Envelope_new(EnvSampleRate)
    /\ env_call = NoEnvCall
    /\ lookup = <<>>
    /\ alloc_call = NoAllocCall
    /\ bt = BtIdle
    /\ rt = NoRuntime
    /\ lk = NoLookup
    /\ osc_call = NoOscCall
    /\ cv = NoConversion
    /\ vso = VariableShapeOscillator_new(VsoSampleRate)
    /\ vso_call = NoVsoCall
    /\ octave = "Four"
    /\ oct_call = NoOctCall(TRUE)
    /\ synth = AdditiveSynth_new(SynthSampleRate)
    /\ synth_call = NoSynthCall
    /\ project = Project_new(1)
    /\ proj_call = NoProjCall

VsoSpec == VsoInit /\ [][VsoNext]_vars

\* As Init: the oscillator as VariableShapeOscillator::new leaves it.
RetuneInit ==
    /\ adsr = Envelope_new(EnvSampleRate)
    /\ env_call = NoEnvCall
    /\ lookup = <<>>
    /\ alloc_call = NoAllocCall
    /\ bt = BtIdle
    /\ rt = NoRuntime
    /\ lk = NoLookup
    /\ osc_call = NoOscCall
    /\ cv = NoConversion
    /\ vso = VariableShapeOscillator_new(VsoSampleRate)
    /\ vso_call = NoVsoCall
    /\ octave = "Four"
    /\ oct_call = NoOctCall(TRUE)
    /\ synth = AdditiveSynth_new(SynthSampleRate)
    /\ synth_call = NoSynthCall
    /\ project = Project_new(1)
    /\ proj_call = NoProjCall

RetuneSpec == RetuneInit /\ [][RetuneNext]_vars

\* As Init, with any Octave in the caller's variable, in either build.
OctInit ==
    /\ adsr = Envelope_new(EnvSampleRate)
    /\ env_call = NoEnvCall
    /\ lookup = <<>>
    /\ alloc_call = NoAllocCall
    /\ bt = BtIdle
    /\ rt = NoRuntime
    /\ lk = NoLookup
    /\ osc_call = NoOscCall
    /\ cv = NoConversion
    /\ vso = VariableShapeOscillator_new(VsoSampleRate)
    /\ vso_call = NoVsoCall
    /\ \E n \in 1..16 : octave = ALL_OCTAVES[n]
    /\ \E overflow_checks \in BOOLEAN : oct_call = NoOctCall(overflow_checks)
    /\ synth = AdditiveSynth_new(SynthSampleRate)
    /\ synth_call = NoSynthCall
    /\ project = Project_new(1)
    /\ proj_call = NoProjCall

OctSpec == OctInit /\ [][OctNext]_vars

\* As Init: the synth as AdditiveSynth::new leaves it.
SynthInit ==
    /\ adsr = Envelope_new(EnvSampleRate)
    /\ env_call = NoEnvCall
    /\ lookup = <<>>
    /\ alloc_call = NoAllocCall
    /\ bt = BtIdle
    /\ rt = NoRuntime
    /\ lk = NoLookup
    /\ osc_call = NoOscCall
    /\ cv = NoConversion
    /\ vso = VariableShapeOscillator_new(VsoSampleRate)
    /\ vso_call = NoVsoCall
    /\ octave = "Four"
    /\ oct_call = NoOctCall(TRUE)
    /\ synth = AdditiveSynth_new(SynthSampleRate)
    /\ synth_call = NoSynthCall
    /\ project = Project_new(1)
    /\ proj_call = NoProjCall

SynthSpec == SynthInit /\ [][SynthNext]_vars

\* As Init, with a Project of any capacity as Project::new leaves it.
ProjInit ==
    /\ adsr = Envelope_new(EnvSampleRate)
    /\ env_call = NoEnvCall
    /\ lookup = <<>>
    /\ alloc_call = NoAllocCall
    /\ bt = BtIdle
    /\ rt = NoRuntime
    /\ lk = NoLookup
    /\ osc_call = NoOscCall
    /\ cv = NoConversion
    /\ vso = VariableShapeOscillator_new(VsoSampleRate)
    /\ vso_call = NoVsoCall
    /\ octave = "Four"
    /\ oct_call = NoOctCall(TRUE)
    /\ synth = AdditiveSynth_new(SynthSampleRate)
    /\ synth_call = NoSynthCall
    /\ \E PATTERNS \in 0..MaxPatterns : project = Project_new(PATTERNS)
    /\ proj_call = NoProjCall

ProjSpec == ProjInit /\ [][ProjNext]_vars

(***************************************************************************)
(* The envelope's properties                                               *)
(***************************************************************************)

\* 0.999, the level the spec's scenarios call "the peak".
NearPeak == RoundDiv(999 * FxOne, 1000)

\* The distance from its target below which a one-pole step rounds to nothing.
Settle == FxOne \div 100

\* The last call was process(new_gate) and the process call before it had old_gate.
EdgeCall(old_gate, new_gate) ==
    /\ env_call.op = "process"
    /\ env_call.prev_gate = old_gate
    /\ env_call.gate = new_gate

\* C1: process detects gate edges relative to the gate of the previous process
\* call: after a call where the gate went false->true the envelope is in the
\* Attack arm (Attack, or Decay when the attack completed within the call), and
\* after a call where the gate went true->false it is in the Release arm
\* (Release, or Init when the release completed within the call).
C1_GateEdgesForceStage ==
    /\ EdgeCall(FALSE, TRUE) => adsr.stage \in {"Attack", "Decay"}
    /\ EdgeCall(TRUE, FALSE) => adsr.stage \in {"Release", "Init"}

\* A process(TRUE) step taken right after a process(TRUE) call: the gate is held.
HeldStep ==
    /\ env_call.op = "process" /\ env_call.gate
    /\ env_call'.op = "process" /\ env_call'.gate

\* A process(FALSE) step taken right after a process(TRUE) call: the gate falls.
FallStep ==
    /\ env_call.op = "process" /\ env_call.gate
    /\ env_call'.op = "process" /\ ~env_call'.gate

\* C2: with the gate held on every sample and sustain 0.5, the output rises
\* monotonically during Attack, and once the stage is Decay it stays Decay on
\* every later held call while the output decreases from the peak toward 0.5
\* without passing below it.
C2_HeldGateDecaysToSustain ==
    [][/\ (HeldStep /\ adsr.stage = "Attack") => adsr'.x >= adsr.x
       /\ (HeldStep /\ adsr.stage = "Decay" /\ adsr.sustain_level = FxOne \div 2
             /\ adsr.x - adsr.sustain_level > Settle)
          => /\ adsr'.stage = "Decay"
             /\ adsr'.x < adsr.x
             /\ adsr'.x >= adsr.sustain_level]_vars

\* C3: once the gate is released with the envelope sitting at a positive level
\* in Decay, the output decreases on the releasing call (the stage becoming
\* Release, or Init with output 0), and an envelope in Init stays in Init with
\* output 0 while the gate stays low.
C3_ReleaseDecaysToInit ==
    [][/\ (FallStep /\ adsr.stage = "Decay" /\ adsr.x > 0)
          => /\ adsr'.x < adsr.x
             /\ adsr'.stage \in {"Release", "Init"}
             /\ adsr'.stage = "Init" => (adsr'.x = 0 /\ env_call'.out = 0)
       /\ (env_call'.op = "process" /\ ~env_call'.gate /\ adsr.stage = "Init")
          => (adsr'.stage = "Init" /\ env_call'.out = 0 /\ adsr'.x = adsr.x)]_vars

\* C4: every value process returns and the stored running value x lie in [0.0, 1.0].
C4_OutputInUnitRange ==
    /\ adsr.x >= 0 /\ adsr.x <= FxOne
    /\ env_call.out >= 0 /\ env_call.out <= FxOne

\* C4's case: a gated call overshot the peak in the Attack arm and was clamped to 1.0.
C4_Witness ==
    /\ env_call.op = "process" /\ env_call.gate
    /\ adsr.attack_d0 < FxOne
    /\ adsr.stage = "Decay" /\ adsr.x = FxOne /\ env_call.out = FxOne

\* C5: a stage time that is zero or negative gives that stage the coefficient
\* 1.0, and with such an attack time the process call that sees the rising gate
\* edge returns at least 0.999 and leaves the stage at Decay.
C5_InstantCoefficient ==
    /\ adsr.attack_time <= 0 => adsr.attack_d0 = FxOne
    /\ adsr.decay_time <= 0 => adsr.decay_d0 = FxOne
    /\ adsr.release_time <= 0 => adsr.release_d0 = FxOne
    /\ (EdgeCall(FALSE, TRUE) /\ adsr.attack_time <= 0)
       => (env_call.out >= NearPeak /\ adsr.stage = "Decay")

\* C5's case: all three stage times were set to zero or below and a rising edge
\* was then processed with attack time 0.
C5_Witness ==
    /\ EdgeCall(FALSE, TRUE)
    /\ adsr.attack_time = 0 /\ adsr.decay_time < 0 /\ adsr.release_time <= 0
    /\ env_call.out >= NearPeak

(***************************************************************************)
(* The allocator's and build_table's properties                            *)
(***************************************************************************)

\* Two keys are equal: the same waveform kind, the same duty cycle and
\* frequencies within 0.0001 Hz of each other.
KeysEqual(k1, k2) ==
    /\ k1.osc = k2.osc
    /\ k1.duty_cycle = k2.duty_cycle
    /\ k1.frequency - k2.frequency <= HzScale \div 10000
    /\ k2.frequency - k1.frequency <= HzScale \div 10000

\* Some entry of the cache has a key equal to key.
KeyCached(cache, key) == \E i \in 1..Len(cache) : KeysEqual(cache[i].key, key)

\* The last call was lookup_or_allocate.
Looked == alloc_call.op = "lookup_or_allocate"

\* C6: in every reachable state, two successive calls with equal keys that both
\* return a table return the table of one and the same cache entry, with the
\* same contents.
C6_EqualKeysSameTable ==
    \A k1 \in AllocKeys, k2 \in AllocKeys :
        KeysEqual(k1, k2) =>
            LET r1 == lookup_or_allocate(lookup, k1.osc, k1.frequency, k1.duty_cycle)
                r2 == lookup_or_allocate(r1.self, k2.osc, k2.frequency, k2.duty_cycle)
            IN (r1.result = "Ok" /\ r2.result = "Ok")
               => (r1.entry = r2.entry /\ r1.ret.table = r2.ret.table)

\* C7: a call whose key is cached returns the cache entry's own backing buffer,
\* creates no table storage and leaves the cache as it was.
C7_HitSharesBackingTable ==
    (Looked /\ KeyCached(alloc_call.before, alloc_call.key))
    => /\ alloc_call.result = "Ok"
       /\ alloc_call.ret.id = lookup[alloc_call.entry].id
       /\ alloc_call.created = 0
       /\ lookup = alloc_call.before

\* C8: with MAX_TABLES entries cached, a call whose key matches no entry returns
\* TableFull and leaves the entries exactly as before, and a call whose key
\* matches an entry succeeds with that entry's table.
C8_FullCacheRefusesNewKeys ==
    (Looked /\ Len(alloc_call.before) = MAX_TABLES)
    => IF KeyCached(alloc_call.before, alloc_call.key)
       THEN /\ alloc_call.result = "Ok"
            /\ KeysEqual(lookup[alloc_call.entry].key, alloc_call.key)
            /\ alloc_call.ret.table = alloc_call.before[alloc_call.entry].table
            /\ lookup = alloc_call.before
       ELSE /\ alloc_call.result = "TableFull"
            /\ lookup = alloc_call.before

\* C8's case: a key that is not cached was asked of a full cache.
C8_Witness ==
    /\ Looked
    /\ Len(alloc_call.before) = MAX_TABLES
    /\ ~KeyCached(alloc_call.before, alloc_call.key)
    /\ alloc_call.result = "TableFull"

\* Every entry present before the last call is still there, unchanged, and the
\* cache is within its capacity.
EntriesKept ==
    /\ Len(lookup) >= Len(alloc_call.before)
    /\ Len(lookup) <= MAX_TABLES
    /\ \A i \in 1..Len(alloc_call.before) : lookup[i] = alloc_call.before[i]

\* C9 as stated: entries are never removed or changed, the cache never exceeds
\* MAX_TABLES, every miss adds exactly one entry and every hit adds none.
C9_EveryMissAddsOne ==
    Looked =>
        /\ EntriesKept
        /\ KeyCached(alloc_call.before, alloc_call.key)
           => Len(lookup) = Len(alloc_call.before)
        /\ ~KeyCached(alloc_call.before, alloc_call.key)
           => Len(lookup) = Len(alloc_call.before) + 1

\* C9, amended: entries are never removed or changed, the cache never exceeds
\* MAX_TABLES, every hit adds no entry, every miss below capacity adds exactly
\* one entry (the key asked for), and a miss at capacity adds none.
C9_EvictNever ==
    Looked =>
        /\ EntriesKept
        /\ KeyCached(alloc_call.before, alloc_call.key)
           => Len(lookup) = Len(alloc_call.before)
        /\ (~KeyCached(alloc_call.before, alloc_call.key)
              /\ Len(alloc_call.before) < MAX_TABLES)
           => /\ Len(lookup) = Len(alloc_call.before) + 1
              /\ lookup[Len(lookup)].key = alloc_call.key
        /\ (~KeyCached(alloc_call.before, alloc_call.key)
              /\ Len(alloc_call.before) = MAX_TABLES)
           => Len(lookup) = Len(alloc_call.before)

\* C9's case: the key asked for differs from a cached key in the duty cycle
\* only, and the call added an entry for it.
C9_Witness ==
    /\ Looked
    /\ \E i \in 1..Len(alloc_call.before) :
          /\ alloc_call.before[i].key.osc = alloc_call.key.osc
          /\ alloc_call.before[i].key.frequency = alloc_call.key.frequency
          /\ alloc_call.before[i].key.duty_cycle # alloc_call.key.duty_cycle
    /\ ~KeyCached(alloc_call.before, alloc_call.key)
    /\ Len(lookup) = Len(alloc_call.before) + 1

\* C10: build_table returns IncorrectSize{expected: sample_rate, actual: length}
\* exactly when the buffer length differs from sample_rate, and then writes no
\* element; otherwise it returns Ok and writes every element.
C10_BuildTableChecksLength ==
    bt.called =>
        IF Len(bt.buffer) # bt.sample_rate
        THEN /\ bt.result = [err |-> "IncorrectSize", expected |-> bt.sample_rate,
                             actual |-> Len(bt.buffer)]
             /\ bt.written = {}
             /\ bt.table = bt.buffer
        ELSE /\ bt.result.err = "Ok"
             /\ bt.written = 1..Len(bt.buffer)
             /\ Len(bt.table) = Len(bt.buffer)

\* C10's case: build_table was called on a buffer longer than the sample rate.
C10_Witness ==
    /\ bt.called
    /\ bt.sample_rate > 0
    /\ Len(bt.buffer) > bt.sample_rate
    /\ bt.result.err = "IncorrectSize"

(***************************************************************************)
(* The table's contents                                                    *)
(***************************************************************************)

\* The largest difference between two sines whose phases differ by one
\* thousandth of a turn, as a value times den.
SineTolerance(den) == RoundDiv(7 * den, 1000)

\* The element build_table is to write at the 1-based position i.
Wanted(i) == sample_index(bt.osc, i - 1, bt.sample_rate, bt.frequency, bt.duty_cycle)

\* C11: the table written by build_table holds sample_index(i, sample_rate,
\* frequency, duty) at every i in [0, sample_rate): exactly for Saw, Triangle
\* and Square, and within the rounding tolerance for Sine.
C11_TableMatchesSampleIndex ==
    (bt.called /\ bt.result.err = "Ok") =>
        /\ Len(bt.table) = bt.sample_rate
        /\ \A i \in 1..bt.sample_rate :
              IF bt.osc = "Sine"
              THEN /\ bt.table[i] - Wanted(i) <= SineTolerance(PhaseDen(bt.sample_rate))
                   /\ Wanted(i) - bt.table[i] <= SineTolerance(PhaseDen(bt.sample_rate))
              ELSE bt.table[i] = Wanted(i)

\* C11's case: a sine table was built, and the rounding of the fast path shows
\* in one of its elements.
C11_Witness ==
    /\ bt.called
    /\ bt.result.err = "Ok"
    /\ bt.osc = "Sine"
    /\ \E i \in 1..bt.sample_rate : bt.table[i] # Wanted(i) /\ bt.table[i] # 0

(***************************************************************************)
(* The two oscillators' properties                                         *)
(***************************************************************************)

\* The lookup oscillator reads a table built for the runtime oscillator's exact
\* configuration: kind, frequency, duty cycle Half and its own sample rate.
SameConfiguration == Len(lk.table) = rt.sample_rate /\ lk.sample_rate = rt.sample_rate

\* Two sample values are the same up to the rounding tolerance.
NearlyEqual(a, b, den) == a - b <= SineTolerance(den) /\ b - a <= SineTolerance(den)

\* C12: with the table built for the runtime oscillator's configuration, the
\* k-th sample of the lookup oscillator is the k-th sample of the runtime
\* oscillator (here: up to the rounding tolerance), for every k, also after the
\* lookup index has wrapped and for frequencies that are no whole number of hertz.
C12_LookupEqualsRuntime ==
    SameConfiguration =>
        \A k \in 1..Len(osc_call.rt_out) :
            k <= Len(osc_call.lk_out)
            => NearlyEqual(osc_call.lk_out[k], osc_call.rt_out[k],
                           PhaseDen(rt.sample_rate))

\* C17: for a lookup oscillator made by new_from_table from any sample rate and
\* any table that is not empty, after any number of sample() calls the index is
\* below the table's length and no sample() call has read outside the table.
C17_LookupIndexInTable ==
    Len(lk.table) > 0 => (lk.index < Len(lk.table) /\ ~osc_call.panicked)

(***************************************************************************)
(* The conversions' properties                                             *)
(***************************************************************************)

\* The format the value started in, and the formats and values after the
\* first, second and third conversion.
FormatA == cv.trail[1].fmt
FormatB == cv.trail[2].fmt

\* Converting from format a to format b keeps every value apart: b is an
\* integer format of at least as many bits, or f32 for at most 24 bits, or f64
\* for at most 48 bits.
Lossless(a, b) ==
    /\ a \in IntFormats
    /\ \/ b \in IntFormats /\ Bits(b) >= Bits(a)
       \/ b = "f32" /\ Bits(a) <= 24
       \/ b = "f64" /\ Bits(a) <= 48

\* C13: for an integer format A and a format B that is an integer format of at
\* least as many bits (either signedness), or f32 for A of at most 24 bits, or
\* f64 for A of at most 48 bits, converting A -> B -> A returns the value.
C13_WidenNarrowIsIdentity ==
    (Len(cv.trail) >= 3 /\ Lossless(FormatA, FormatB))
    => cv.trail[3].v = cv.trail[1].v

\* C13's case: a negative i16 value with low bits set went to u48 and back.
C13_Witness ==
    /\ Len(cv.trail) >= 3
    /\ FormatA = "i16"
    /\ FormatB = "u48"
    /\ cv.trail[1].v = NatBits(8, 129) \o NatBits(8, 1)
    /\ cv.trail[3] = cv.trail[1]

\* C14: for integer formats W wider than N, narrowing a W value, widening the
\* result and narrowing again gives the value the first narrowing gave.
C14_NarrowingIdempotent ==
    (/\ Len(cv.trail) >= 4
     /\ FormatA \in IntFormats
     /\ FormatB \in IntFormats
     /\ Bits(FormatA) > Bits(FormatB))
    => cv.trail[4].v = cv.trail[2].v

\* C14's case: a u32 value that narrowing to i16 changes was narrowed, widened
\* and narrowed again.
C14_Witness ==
    /\ Len(cv.trail) >= 4
    /\ FormatA = "u32"
    /\ FormatB = "i16"
    /\ cv.trail[3].v # cv.trail[1].v
    /\ cv.trail[4].v = cv.trail[2].v

\* The minimum, the zero or midpoint, and the maximum of an integer format.
MinOf(fmt) ==
    Held(fmt, IF Signed(fmt) THEN Pow2(Bits(fmt), Bits(fmt) - 1) ELSE Fill(Bits(fmt), 0))
MidOf(fmt) ==
    Held(fmt, IF Signed(fmt) THEN Fill(Bits(fmt), 0) ELSE Pow2(Bits(fmt), Bits(fmt) - 1))
MaxOf(fmt) ==
    Held(fmt, IF Signed(fmt) THEN Ones(Bits(fmt), Bits(fmt) - 1) ELSE Fill(Bits(fmt), 1))

\* The floats -1.0 and 0.0.
MinusOne == [neg |-> TRUE, mag |-> NatBits(64, 1), frac |-> 0]
FloatZero == [neg |-> FALSE, mag |-> Fill(64, 0), frac |-> 0]

\* The first conversion maps minimum to minimum and zero or midpoint to zero or
\* midpoint, between integer formats and between an integer format and a float.
BoundsKept ==
    /\ (FormatA \in IntFormats /\ FormatB \in IntFormats)
       => /\ cv.trail[1].v = MinOf(FormatA) => cv.trail[2].v = MinOf(FormatB)
          /\ cv.trail[1].v = MidOf(FormatA) => cv.trail[2].v = MidOf(FormatB)
          /\ (cv.trail[1].v = MaxOf(FormatA) /\ Bits(FormatB) <= Bits(FormatA))
             => cv.trail[2].v = MaxOf(FormatB)
    /\ (FormatA \in IntFormats /\ FormatB \in FloatFormats)
       => /\ cv.trail[1].v = MinOf(FormatA) => cv.trail[2].v = MinusOne
          /\ cv.trail[1].v = MidOf(FormatA) => cv.trail[2].v = FloatZero
    /\ (FormatA \in FloatFormats /\ FormatB \in IntFormats)
       => /\ cv.trail[1].v = MinusOne => cv.trail[2].v = MinOf(FormatB)
          /\ cv.trail[1].v = FloatZero => cv.trail[2].v = MidOf(FormatB)

\* The maximum of format a was converted to the wider integer format b.
MaxWidened ==
    /\ Len(cv.trail) >= 2
    /\ FormatA \in IntFormats
    /\ FormatB \in IntFormats
    /\ Bits(FormatB) > Bits(FormatA)
    /\ cv.trail[1].v = MaxOf(FormatA)

\* C15 as stated: minimum maps to minimum and zero or midpoint to zero or
\* midpoint; the maximum maps to the target's maximum when the target is not
\* wider and, when it is wider, to the source's maximum shifted left by the
\* difference of the widths.
C15_MaxShiftedLeft ==
    Len(cv.trail) >= 2 =>
        /\ BoundsKept
        /\ MaxWidened
           => cv.trail[2].v =
                 Held(FormatB,
                      Low(MaxOf(FormatA), Bits(FormatA))
                      \o Fill(Bits(FormatB) - Bits(FormatA), 0))

\* The maximum of the format that has as many bits as format a and the
\* signedness of format b, as that many bits.
MaxAs(a, b) == IF Signed(b) THEN Ones(Bits(a), Bits(a) - 1) ELSE Fill(Bits(a), 1)

\* C15, amended: as stated, but the maximum converted to a wider format is the
\* maximum of the source's width in the target's signedness, shifted left by
\* the difference of the widths.
C15_BoundaryValues ==
    Len(cv.trail) >= 2 =>
        /\ BoundsKept
        /\ MaxWidened
           => cv.trail[2].v =
                 Held(FormatB,
                      MaxAs(FormatA, FormatB) \o Fill(Bits(FormatB) - Bits(FormatA), 0))

\* C15's case: the maximum of i8, 127, was converted to u16 and gave 65280.
C15_Witness ==
    /\ MaxWidened
    /\ FormatA = "i8"
    /\ FormatB = "u16"
    /\ cv.trail[2].v = Fill(8, 1) \o Fill(8, 0)

(***************************************************************************)
(* The variable-shape oscillator's properties                              *)
(***************************************************************************)

\* The last call was sample, made with sync enabled.
SyncedSample == vso_call.op = "sample" /\ vso_call.before.enable_sync

\* The master phase wrapped in the last call.
MasterWrapped ==
    vso_call.before.master_phase + vso_call.before.master_frequency >= FxOne

\* C16: with sync enabled, a sample call in which the master phase wraps
\* leaves the slave phase at reset_time * slave_frequency, reset_time being
\* the wrapped master phase divided by the master frequency, and the high flag
\* false; a call in which it does not wrap leaves the slave phase advanced by
\* slave_frequency, modulo 1.
C16_SyncResetsOnMasterWrap ==
    SyncedSample =>
        LET b == vso_call.before
            wrapped == b.master_phase + b.master_frequency - FxOne
        IN  IF MasterWrapped
            THEN /\ vso.slave_phase =
                        fmul(fdiv(wrapped, b.master_frequency), b.slave_frequency)
                 /\ ~vso.high
            ELSE vso.slave_phase = (b.slave_phase + b.slave_frequency) % FxOne

\* C16's case: the master phase wrapped part of the way into a sample, and the
\* reset put the slave phase somewhere else than advancing it would have.
C16_Witness ==
    /\ SyncedSample
    /\ MasterWrapped
    /\ vso_call.reset_time > 0
    /\ vso.slave_phase > 0
    /\ vso.slave_phase #
          (vso_call.before.slave_phase + vso_call.before.slave_frequency) % FxOne

(***************************************************************************)
(* Octave's properties                                                     *)
(***************************************************************************)

\* The sixteen variants.
Octaves == {ALL_OCTAVES[n] : n \in 1..16}

\* The number the last operation's arithmetic gives.
OctNumber ==
    IF oct_call.op \in {"add", "add_assign", "add_i8", "add_assign_i8"}
    THEN as_u8(oct_call.lhs) + oct_call.rhs
    ELSE as_u8(oct_call.lhs) - oct_call.rhs

\* C18: Octave + Octave, Octave + i8, Octave - i8 and Octave - Octave give the
\* octave of the arithmetic result when that is in 0..=15 and panic otherwise;
\* try_from gives Ok for 0..=15 and Err for larger values; no operation
\* produces an Octave that is none of Zero..=Fifteen.
C18_OctaveRangeChecked ==
    /\ octave \in Octaves
    /\ oct_call.op \notin {"none", "try_from"}
       => IF OctNumber \in 0..15
          THEN ~oct_call.panic /\ oct_call.value = ALL_OCTAVES[OctNumber + 1]
          ELSE oct_call.panic
    /\ oct_call.op = "try_from"
       => IF oct_call.rhs <= 15
          THEN oct_call.ok /\ oct_call.value = ALL_OCTAVES[oct_call.rhs + 1]
          ELSE ~oct_call.ok /\ oct_call.value \notin Octaves
    /\ oct_call.op \in {"add_assign", "add_assign_i8", "sub_assign_i8"}
       => octave = IF oct_call.panic THEN oct_call.lhs ELSE oct_call.value

\* C18's case: in a build without overflow checks Fifteen + 127, which wraps
\* as an i8, panicked.
C18_Witness ==
    /\ oct_call.op = "add_i8"
    /\ ~oct_call.overflow_checks
    /\ oct_call.lhs = "Fifteen"
    /\ oct_call.rhs = 127
    /\ oct_call.panic

(***************************************************************************)
(* The envelope's stage changes and sustain level                          *)
(***************************************************************************)

\* The running value a process call computes from envelope self in stage
\* stage, before it is clamped.
Running(self, stage) ==
    CASE stage = "Attack" -> self.x + FxMul(self.attack_d0, self.attack_level - self.x)
      [] stage = "Decay" -> self.x + FxMul(self.decay_d0, self.sustain_level - self.x)
      [] stage = "Release" -> self.x + FxMul(self.release_d0, NegFloor - self.x)
      [] OTHER -> self.x

\* What a process call that starts its match in stage stage, from envelope
\* self, may do to reach envelope next and return out: leave Attack for Decay
\* exactly when the running value exceeds 1.0, leave Decay or Release for Init
\* exactly when it drops below 0.0, and otherwise keep the stage.
StageRule(self, stage, next, out) ==
    CASE stage = "Attack" ->
            IF Running(self, stage) > FxOne
            THEN next.stage = "Decay" /\ out = FxOne /\ next.x = FxOne
            ELSE next.stage = "Attack"
      [] stage \in {"Decay", "Release"} ->
            IF Running(self, stage) < 0
            THEN next.stage = "Init" /\ out = 0 /\ next.x = 0
            ELSE next.stage = stage
      [] OTHER -> next.stage = "Init" /\ out = 0 /\ next.x = self.x

\* The envelope as it would be in Release with the gate seen high.
Releasing == [adsr EXCEPT !.stage = "Release", !.gate = TRUE]

\* C19: the stage changes process makes after its gate edge test are
\* Attack -> Decay, on exactly the call where the running value exceeds 1.0
\* (1.0 is returned and stored), and Decay or Release -> Init, on exactly the
\* call where it drops below 0.0 (0.0 is returned and stored); a call in Init
\* with the gate low returns 0.0 and changes neither the stage nor x. Stated
\* of the call made next, with either gate, on the envelope as it is and as
\* it would be in Release.
C19_AutomaticStageChanges ==
    \A g \in BOOLEAN :
        LET r == process(adsr, g)
            rel == process(Releasing, g)
        IN  /\ StageRule(adsr, EdgeStage(adsr, g), r.self, r.out)
            /\ StageRule(Releasing, "Release", rel.self, rel.out)
            /\ (adsr.stage = "Init" /\ ~g)
               => (r.self.stage = "Init" /\ r.out = 0 /\ r.self.x = adsr.x)

\* C19's case: a call with the gate low, made after a call with the gate
\* high had left the stage at Attack or Decay, ended in Init at 0.0.
C19_Witness ==
    /\ env_call.op = "process"
    /\ ~env_call.gate
    /\ env_call.prev_gate
    /\ adsr.stage = "Init"
    /\ adsr.x = 0
    /\ env_call.out = 0

\* C20: in every reachable state, a freshly constructed envelope included, the
\* sustain level is -0.01 or a value in (0.0, 1.0], never 0.
C20_SustainNeverZero ==
    \/ adsr.sustain_level = NegFloor
    \/ adsr.sustain_level > 0 /\ adsr.sustain_level <= FxOne

(***************************************************************************)
(* The runtime oscillator's phase                                          *)
(***************************************************************************)

\* C21: after any number of sample calls with a non-negative frequency the
\* phase the RuntimeOscillator stores lies in [0, 1).
C21_RuntimePhaseInUnitRange ==
    rt.phase >= 0 /\ rt.phase < PhaseDen(rt.sample_rate)

(***************************************************************************)
(* The allocator's errors                                                  *)
(***************************************************************************)

\* C22: lookup_or_allocate returns Ok or TableFull and never IncorrectSize,
\* and every cached table, like every table returned, has SAMPLE_RATE
\* elements, the sample rate it was built for.
C22_NeverIncorrectSize ==
    /\ alloc_call.result \in {"Ok", "TableFull"}
    /\ \A i \in 1..Len(lookup) : Len(lookup[i].table) = SAMPLE_RATE
    /\ (Looked /\ alloc_call.result = "Ok") => Len(alloc_call.ret.table) = SAMPLE_RATE

\* C22's case: a call missed the cache, synthesised a table and cached it.
C22_Witness ==
    /\ Looked
    /\ alloc_call.result = "Ok"
    /\ alloc_call.created = 2
    /\ Len(lookup) = Len(alloc_call.before) + 1
    /\ Len(lookup[Len(lookup)].table) = SAMPLE_RATE

(***************************************************************************)
(* The variable-shape oscillator's frequencies, phases and loop            *)
(***************************************************************************)

\* C23: under any sequence of setter and sample calls with non-negative
\* frequencies, master_frequency and slave_frequency never exceed 0.25, and
\* after every sample call master_phase and slave_phase lie in [0, 1).
C23_FrequenciesAndPhasesBounded ==
    /\ vso.master_frequency <= Quarter
    /\ vso.slave_frequency <= Quarter
    /\ vso_call.op = "sample"
       => /\ vso.master_phase >= 0 /\ vso.master_phase < FxOne
          /\ vso.slave_phase >= 0 /\ vso.slave_phase < FxOne

\* C23's case: with both frequencies at the ceiling and sync enabled, a sample
\* call took the slave phase past 1.0 and wrapped it.
C23_Witness ==
    /\ vso_call.op = "sample"
    /\ vso_call.before.master_frequency = Quarter
    /\ vso_call.before.slave_frequency = Quarter
    /\ vso_call.before.slave_phase + vso_call.before.slave_frequency >= FxOne
    /\ vso.slave_phase < FxOne

\* C24 as stated: a sample call's edge loop makes at most one rising-edge and
\* one falling-edge transition before it breaks.
C24_AtMostTwoTransitions ==
    vso_call.op = "sample" => vso_call.edges <= 2

\* C24: a sample call's edge loop breaks after at most three transitions; a
\* third one is a second rising edge, taken when the phase wrapped by the
\* falling edge is not below a pulse width that was set for a lower slave
\* frequency.
C24_AtMostThreeTransitions ==
    vso_call.op = "sample"
    => /\ vso_call.edges <= 3
       /\ vso_call.edges = 3
          => /\ ~vso_call.before.high
             /\ vso.high
             /\ vso.pulse_width <= vso.slave_phase
             /\ vso.pulse_width < 2 * vso.slave_frequency

\* C24's case: a sample call whose loop made a rising, a falling and a second
\* rising transition.
C24_Witness ==
    /\ vso_call.op = "sample"
    /\ vso_call.edges = 3
    /\ ~vso_call.before.high
    /\ vso.slave_phase < FxOne

(***************************************************************************)
(* Hertz as a key: equality and hash                                       *)
(***************************************************************************)

\* The frequencies compared and hashed so far: those of the cached keys and
\* that of the key last looked up.
KeyFrequencies ==
    {lookup[i].key.frequency : i \in 1..Len(lookup)} \cup {alloc_call.key.frequency}

\* C25: Hertz equality is reflexive, symmetric and transitive over the
\* frequencies used as keys, and equal frequencies have the same hash.
C25_HertzEqAndHashLaws ==
    \A a \in KeyFrequencies, b \in KeyFrequencies, c \in KeyFrequencies :
        /\ Hertz_eq(a, a)
        /\ Hertz_eq(a, b) => Hertz_eq(b, a)
        /\ (Hertz_eq(a, b) /\ Hertz_eq(b, c)) => Hertz_eq(a, c)
        /\ Hertz_eq(a, b) => Hertz_hash(a) = Hertz_hash(b)

(***************************************************************************)
(* The additive synth's voices                                             *)
(***************************************************************************)

\* The notes sounding and their number.
Sounding == DOMAIN synth.voices
VoiceCount == Cardinality(Sounding)

\* Every voice of self but that of note is in other, unchanged.
OthersKept(self, other, note) ==
    \A k \in DOMAIN self.voices \ {note} :
        k \in DOMAIN other.voices /\ other.voices[k] = self.voices[k]

\* C26: the synth never holds more than 8 voices; with 8 voices, note_on of a
\* note that is not sounding returns NoVoices and leaves the voices as they
\* were; note_off removes the voice of its note and no other (nothing if the
\* note is not sounding), and note_on of a new note succeeds after it.
C26_VoicesBounded ==
    /\ VoiceCount <= VoiceCapacity
    /\ \A note \in NoteChoices \ Sounding, velocity \in VelocityChoices :
          VoiceCount = VoiceCapacity
          => /\ note_on(synth, note, velocity).result = "NoVoices"
             /\ note_on(synth, note, velocity).self = synth
    /\ \A note \in NoteChoices :
          LET off == note_off(synth, note)
          IN  IF note \in Sounding
              THEN /\ DOMAIN off.voices = Sounding \ {note}
                   /\ OthersKept(synth, off, note)
                   /\ \A new \in NoteChoices \ DOMAIN off.voices, velocity \in VelocityChoices :
                         /\ note_on(off, new, velocity).result = "Ok"
                         /\ new \in DOMAIN note_on(off, new, velocity).self.voices
              ELSE off = synth
    /\ (synth_call.op = "note_on" /\ synth_call.result = "NoVoices")
       => (~synth_call.sounding /\ VoiceCount = VoiceCapacity)

\* C26's case: with 8 voices sounding, note_on of a ninth note was refused.
C26_Witness ==
    /\ synth_call.op = "note_on"
    /\ synth_call.result = "NoVoices"
    /\ synth_call.note \notin Sounding
    /\ VoiceCount = VoiceCapacity

C28_PhasesInUnitRange ==
    synth_call.op = "next"
    => \A note \in Sounding :
          /\ synth.voices[note].phase_0 >= 0
          /\ synth.voices[note].phase_0 < PhaseDen(synth.sample_rate)
          /\ synth.voices[note].phase_1 = 0
          /\ synth.voices[note].phase_2 = 0
          /\ synth.voices[note].phase_3 = 0

(***************************************************************************)
(* The project's patterns                                                  *)
(***************************************************************************)

\* C29: get_pattern and get_pattern_mut return None, without a panic, for
\* every index at which there is no pattern.
C29_AbsentPatternIsNone ==
    proj_call.op \in {"get_pattern", "get_pattern_mut"}
    => (~proj_call.panic /\ proj_call.value = "None")

(***************************************************************************)
(* The waveforms' range                                                    *)
(***************************************************************************)

\* C30: every value saw, triangle and square compute lies in [-1.0, 1.0), the
\* range the conversions from f32 assume of their input.
C30_WaveformsWithinContract ==
    (bt.called /\ bt.result.err = "Ok" /\ bt.osc \in {"Saw", "Triangle", "Square"})
    => \A i \in bt.written :
          /\ bt.table[i] >= -PhaseDen(bt.sample_rate)
          /\ bt.table[i] < PhaseDen(bt.sample_rate)

====
